---- MODULE Spec2Model ----
(***************************************************************************)
(* Niche analysis pipeline of sitegenie (src/src/nicheAnalysis.js).        *)
(*                                                                         *)
(* Numbers are JavaScript numbers in fixed point: a finite number is       *)
(* [t |-> "num", v |-> n] with n the value in thousandths; NaN, +Infinity  *)
(* and -Infinity are values of their own, and `undefined` (a missing       *)
(* property) converts to NaN in arithmetic.  Strings are sequences of      *)
(* character codes, so that length, includes() and charCodeAt() are        *)
(* computed as the code computes them.  Objects are records; a missing     *)
(* property is a field that is not in the record's DOMAIN.                 *)
(***************************************************************************)
EXTENDS Integers, Sequences, FiniteSets, TLC

VARIABLES
    env,                \* process.env as read by the module: the API keys and SAVE_ANALYSIS_RESULTS
    request,            \* the options object passed to analyzeNiche
    randomStream,       \* the values Math.random() returns, in thousandths, repeated cyclically
    randomPos,          \* number of Math.random() calls made so far
    pc,                 \* position of the analyzeNiche call
    pending,            \* indices of the keyword fetches that have not completed
    keywordDataResults, \* results of fetchKeywordData, by keyword index
    niches,             \* candidates returned by generateNicheRecommendations
    scoredNiches,       \* candidates with their three scores
    filteredNiches,     \* after filter, sort and slice
    result,             \* the object analyzeNiche resolved to
    calls,              \* the run's calls of fetchKeywordData, of the keyword provider and
                        \* of the scorers, and what the providers answered
    client,             \* the pooled connection of saveAnalysisResults
    queries,            \* statements issued on the connection, in order
    save,               \* position of saveAnalysisResults in its batch
    txn,                \* the store as seen inside the open transaction
    store,              \* the committed store
    scorer,             \* the last direct call of an exported scorer
    registry,           \* the call of the domain registry module: its options, its
                        \* availability checks, the registrar and DNS calls, its result
    content             \* the call of the content generator: its model calls, the
                        \* retry queue, its result

vars == <<env, request, randomStream, randomPos, pc, pending, keywordDataResults,
          niches, scoredNiches, filteredNiches, result, calls, client, queries,
          save, txn, store, scorer, registry, content>>

\* the variables of the niche analysis module
analysisVars == <<request, pending, keywordDataResults, niches, scoredNiches,
                  filteredNiches, result, calls, client, queries, save, txn, store,
                  scorer>>

----------------------------------------------------------------------------
(* JavaScript numbers *)

Num(n) == [t |-> "num", v |-> n]
NaN == [t |-> "nan", v |-> 0]
PosInf == [t |-> "pinf", v |-> 0]
NegInf == [t |-> "ninf", v |-> 0]
Undefined == [t |-> "undef", v |-> 0]

\* ToNumber: undefined converts to NaN
ToNumber(x) == IF x.t = "undef" THEN NaN ELSE x

\* a property read: a missing property is undefined
Get(o, f) == IF f \in DOMAIN o THEN o[f] ELSE Undefined

IsFinite(x) == x.t = "num"

\* a + b
JsAdd(x, y) ==
    LET a == ToNumber(x)
        b == ToNumber(y)
    IN  IF a.t = "nan" \/ b.t = "nan" THEN NaN
        ELSE IF a.t = "num" /\ b.t = "num" THEN Num(a.v + b.v)
        ELSE IF a.t = "num" THEN b
        ELSE IF b.t = "num" THEN a
        ELSE IF a.t = b.t THEN a
        ELSE NaN

\* -a
JsNeg(x) ==
    LET a == ToNumber(x)
    IN  IF a.t = "num" THEN Num(0 - a.v)
        ELSE IF a.t = "pinf" THEN NegInf
        ELSE IF a.t = "ninf" THEN PosInf
        ELSE NaN

\* a * (p / q) for a positive constant p / q
JsMul(x, p, q) ==
    LET a == ToNumber(x)
    IN  IF a.t = "num" THEN Num((a.v * p) \div q) ELSE a

\* a / n for a count n (an array length)
JsDivCount(x, n) ==
    LET a == ToNumber(x)
    IN  IF a.t # "num" THEN a
        ELSE IF n # 0 THEN Num(a.v \div n)
        ELSE IF a.v = 0 THEN NaN
        ELSE IF a.v > 0 THEN PosInf
        ELSE NegInf

\* p / q for two integers
JsDivInts(p, q) ==
    IF q # 0 THEN Num((p * 1000) \div q)
    ELSE IF p = 0 THEN NaN
    ELSE IF p > 0 THEN PosInf
    ELSE NegInf

\* a < b (false when either is NaN)
JsLt(x, y) ==
    LET a == ToNumber(x)
        b == ToNumber(y)
    IN  IF a.t = "nan" \/ b.t = "nan" THEN FALSE
        ELSE IF a.t = "num" /\ b.t = "num" THEN a.v < b.v
        ELSE IF a.t = b.t THEN FALSE
        ELSE a.t = "ninf" \/ b.t = "pinf"

\* a > b in the place of a >= b
JsGe_Strict(x, y) == JsLt(y, x)

\* a >= b (false when either is NaN)
JsGe(x, y) ==
    LET a == ToNumber(x)
        b == ToNumber(y)
    IN  IF a.t = "nan" \/ b.t = "nan" THEN FALSE ELSE ~JsLt(a, b)

\* Math.min(a, b)
MathMin(x, y) ==
    LET a == ToNumber(x)
        b == ToNumber(y)
    IN  IF a.t = "nan" \/ b.t = "nan" THEN NaN
        ELSE IF JsLt(b, a) THEN b ELSE a

\* Math.max(a, b)
MathMax(x, y) ==
    LET a == ToNumber(x)
        b == ToNumber(y)
    IN  IF a.t = "nan" \/ b.t = "nan" THEN NaN
        ELSE IF JsLt(a, b) THEN b ELSE a

\* Math.floor(a)
MathFloor(x) ==
    LET a == ToNumber(x)
    IN  IF a.t = "num" THEN Num((a.v \div 1000) * 1000) ELSE a

RECURSIVE Pow2(_)
Pow2(n) == IF n = 0 THEN 1 ELSE 2 * Pow2(n - 1)

RECURSIVE FloorLog2(_)
FloorLog2(n) == IF n < 2 THEN 0 ELSE 1 + FloorLog2(n \div 2)

\* the first `bits` binary digits of log2(m / 2^14) for 2^14 <= m < 2^15, by repeated squaring
RECURSIVE Log2Frac(_, _, _)
Log2Frac(m, bits, acc) ==
    IF bits = 0 THEN acc
    ELSE LET sq == (m * m) \div 16384
         IN  IF sq >= 32768 THEN Log2Frac(sq \div 2, bits - 1, 2 * acc + 1)
             ELSE Log2Frac(sq, bits - 1, 2 * acc)

\* log10 of an integer n >= 1, in thousandths (accurate to about 0.001)
Log10Milli(n) ==
    LET e == FloorLog2(n)
        m == IF e >= 14 THEN n \div Pow2(e - 14) ELSE n * Pow2(14 - e)
        f == Log2Frac(m, 10, 0)
    IN  ((e * 1024 + f) * 30103 + 51200) \div 102400

\* Math.log10(a)
MathLog10(x) ==
    LET a == ToNumber(x)
    IN  IF a.t = "nan" \/ a.t = "ninf" THEN NaN
        ELSE IF a.t = "pinf" THEN PosInf
        ELSE IF a.v < 0 THEN NaN
        ELSE IF a.v = 0 THEN NegInf
        ELSE Num(Log10Milli(a.v) - 3000)

\* a * b
JsTimes(x, y) ==
    LET a == ToNumber(x)
        b == ToNumber(y)
    IN  IF a.t = "nan" \/ b.t = "nan" THEN NaN
        ELSE IF a.t = "num" /\ b.t = "num"
             THEN Num((a.v \div 1000) * b.v + ((a.v % 1000) * b.v) \div 1000)
        ELSE IF (a.t = "num" /\ a.v = 0) \/ (b.t = "num" /\ b.v = 0) THEN NaN
        ELSE IF JsLt(a, Num(0)) = JsLt(b, Num(0)) THEN PosInf
        ELSE NegInf

\* parseFloat(a.toFixed(2))
ToFixed2(x) ==
    LET a == ToNumber(x)
    IN  IF a.t = "num" THEN Num(((a.v + 5) \div 10) * 10) ELSE a

----------------------------------------------------------------------------
(* Strings and arrays *)

\* String.prototype.includes
Includes(s, t) ==
    \E i \in 0..(Len(s) - Len(t)) : \A j \in 1..Len(t) : s[i + j] = t[j]

\* slice(0, n + 1): one element too many
Slice_Inclusive(s, n) == IF Len(s) <= n + 1 THEN s ELSE SubSeq(s, 1, n + 1)
\* Array.prototype.slice(0, n)
Slice(s, n) == IF Len(s) <= n THEN s ELSE SubSeq(s, 1, n)

\* the sum of the character codes of a string
RECURSIVE SumCodes(_)
SumCodes(s) == IF s = <<>> THEN 0 ELSE Head(s) + SumCodes(Tail(s))

Space == <<32>>

\* 'best', 'top', 'affordable', 'premium', 'how to', 'why', 'when to'
prefixes ==
    << <<98, 101, 115, 116>>,
       <<116, 111, 112>>,
       <<97, 102, 102, 111, 114, 100, 97, 98, 108, 101>>,
       <<112, 114, 101, 109, 105, 117, 109>>,
       <<104, 111, 119, 32, 116, 111>>,
       <<119, 104, 121>>,
       <<119, 104, 101, 110, 32, 116, 111>> >>

\* 'guide', 'tutorial', 'review', 'tips', 'for beginners', 'services', 'near me'
suffixes ==
    << <<103, 117, 105, 100, 101>>,
       <<116, 117, 116, 111, 114, 105, 97, 108>>,
       <<114, 101, 118, 105, 101, 119>>,
       <<116, 105, 112, 115>>,
       <<102, 111, 114, 32, 98, 101, 103, 105, 110, 110, 101, 114, 115>>,
       <<115, 101, 114, 118, 105, 99, 101, 115>>,
       <<110, 101, 97, 114, 32, 109, 101>> >>

\* 'buy', 'price', 'review', 'best', 'top', 'vs', 'cheap', 'affordable', 'deal', 'sale'
commercialKeywords ==
    << <<98, 117, 121>>,
       <<112, 114, 105, 99, 101>>,
       <<114, 101, 118, 105, 101, 119>>,
       <<98, 101, 115, 116>>,
       <<116, 111, 112>>,
       <<118, 115>>,
       <<99, 104, 101, 97, 112>>,
       <<97, 102, 102, 111, 114, 100, 97, 98, 108, 101>>,
       <<100, 101, 97, 108>>,
       <<115, 97, 108, 101>> >>

----------------------------------------------------------------------------
(* Math.random() *)

\* the value of the k-th call (k counted from 0)
RandomAt(k) == randomStream[(k % Len(randomStream)) + 1]

----------------------------------------------------------------------------
(* Keyword data *)

\* `${prefix} ${keyword}` for every prefix, then `${keyword} ${suffix}` for every suffix
RelatedOf(keyword) ==
    [i \in 1..(Len(prefixes) + Len(suffixes)) |->
        IF i <= Len(prefixes) THEN prefixes[i] \o Space \o keyword
        ELSE keyword \o Space \o suffixes[i - Len(prefixes)]]

\* mockKeywordData(keyword), its three Math.random() calls being calls k, k+1, k+2
mockKeywordData(keyword, k) ==
    LET keywordLength == Len(keyword)
        searchVolume ==
            MathFloor(Num(1000000 + (keywordLength * 500) * (500 + RandomAt(k))))
        competition ==
            MathMin(Num(100 + ((keywordLength % 10) * 1000) \div 20
                        + (RandomAt(k + 1) * 3) \div 10), Num(1000))
        cpc == Num(500 + (keywordLength % 5) * 300 + RandomAt(k + 2))
    IN  [success |-> TRUE,
         keyword |-> keyword,
         search_volume |-> searchVolume,
         competition |-> competition,
         cpc |-> cpc,
         related_keywords |-> Slice(RelatedOf(keyword), 10)]

\* fetchRelatedKeywords(keyword) with a provider key: resp is the outcome of its provider call
fetchRelatedKeywords(keyword, resp) ==
    IF ~env.KEYWORD_PLANNER_API_KEY THEN Slice(RelatedOf(keyword), 15)
    ELSE IF resp.kind = "throw" THEN <<>>
    ELSE IF resp.kind = "results" THEN resp.results
    ELSE <<>>

\* fetchKeywordData whose catch block reports the failure instead of falling back to
\* mockKeywordData
fetchKeywordData_NoFallback(keyword, resp, rel, k) ==
    IF ~env.KEYWORD_PLANNER_API_KEY
    THEN [data |-> mockKeywordData(keyword, k), draws |-> 3, posts |-> 0]
    ELSE IF resp.kind = "results" /\ Len(resp.results) > 0
    THEN LET keywordData == resp.results[1]
         IN  [data |->
                [success |-> TRUE,
                 keyword |-> keyword,
                 search_volume |-> Get(keywordData, "avg_monthly_searches"),
                 competition |-> JsMul(Get(keywordData, "competition_index"), 1, 100),
                 cpc |-> JsMul(Get(keywordData, "high_top_of_page_bid_micros"), 1, 1000000),
                 related_keywords |-> fetchRelatedKeywords(keyword, rel)],
              draws |-> 0, posts |-> 2]
    ELSE [data |-> [success |-> FALSE, keyword |-> keyword],
          draws |-> 0, posts |-> 1]

\* fetchKeywordData(keyword): resp and rel are the outcomes of the two provider calls,
\* k the number of Math.random() calls made before; draws is the number it makes
fetchKeywordData(keyword, resp, rel, k) ==
    IF ~env.KEYWORD_PLANNER_API_KEY
    THEN [data |-> mockKeywordData(keyword, k), draws |-> 3, posts |-> 0]
    ELSE IF resp.kind = "throw"
    THEN [data |-> mockKeywordData(keyword, k), draws |-> 3, posts |-> 1]
    ELSE IF resp.kind = "results" /\ Len(resp.results) > 0
    THEN LET keywordData == resp.results[1]
         IN  [data |->
                [success |-> TRUE,
                 keyword |-> keyword,
                 search_volume |-> Get(keywordData, "avg_monthly_searches"),
                 competition |-> JsMul(Get(keywordData, "competition_index"), 1, 100),
                 cpc |-> JsMul(Get(keywordData, "high_top_of_page_bid_micros"), 1, 1000000),
                 related_keywords |-> fetchRelatedKeywords(keyword, rel)],
              draws |-> 0, posts |-> 2]
    ELSE [data |-> [success |-> FALSE, keyword |-> keyword],
          draws |-> 0, posts |-> 1]

\* keywordDataResults.filter(result => result.success)
IsSuccess(r) == r.success
\* the same step without the filter
ValidKeywordData_All(results) == results
ValidKeywordData(results) == SelectSeq(results, IsSuccess)

----------------------------------------------------------------------------
(* Candidate generation *)

\* the forEach over data.related_keywords: rest is what is left of the list,
\* k the number of Math.random() calls made before
RECURSIVE RelatedNiches(_, _, _)
RelatedNiches(data, rest, k) ==
    IF rest = <<>> THEN [niches |-> <<>>, k |-> k]
    ELSE LET relatedKeyword == Head(rest)
         IN  IF Len(relatedKeyword) < 5 \/ relatedKeyword = data.keyword
             THEN RelatedNiches(data, Tail(rest), k)
             ELSE LET searchVolMod == Num(300 + (RandomAt(k) * 7) \div 10)
                      searchVolume == MathFloor(JsTimes(data.search_volume, searchVolMod))
                      Other(x) == x # relatedKeyword
                  IN  IF JsGe(searchVolume, Num(1000000))
                      THEN LET more == RelatedNiches(data, Tail(rest), k + 3)
                           IN  [niches |->
                                 << [niche_name |-> relatedKeyword,
                                     monthly_search_volume |-> searchVolume,
                                     competition |->
                                         JsTimes(data.competition,
                                                 Num(800 + (RandomAt(k + 1) * 4) \div 10)),
                                     estimated_cpc |->
                                         JsTimes(data.cpc,
                                                 Num(800 + (RandomAt(k + 2) * 4) \div 10)),
                                     related_keywords |->
                                         <<data.keyword>> \o
                                         Slice(SelectSeq(data.related_keywords, Other), 5),
                                     top_competitors |-> <<>>] >> \o more.niches,
                                k |-> more.k]
                      ELSE RelatedNiches(data, Tail(rest), k + 1)

\* the forEach over keywordDataList
RECURSIVE NichesOf(_, _)
NichesOf(keywordDataList, k) ==
    IF keywordDataList = <<>> THEN [niches |-> <<>>, k |-> k]
    ELSE LET data == Head(keywordDataList)
         IN  IF ~data.success THEN NichesOf(Tail(keywordDataList), k)
             ELSE LET niche == [niche_name |-> data.keyword,
                                monthly_search_volume |-> data.search_volume,
                                competition |-> data.competition,
                                estimated_cpc |-> data.cpc,
                                related_keywords |-> data.related_keywords,
                                top_competitors |-> <<>>]
                      derived == RelatedNiches(data, data.related_keywords, k)
                      more == NichesOf(Tail(keywordDataList), derived.k)
                  IN  [niches |-> <<niche>> \o derived.niches \o more.niches,
                       k |-> more.k]

\* generateNicheRecommendations without its preferences.industry block
generateNicheRecommendations_Unfiltered(keywordDataList, preferences, k) ==
    NichesOf(keywordDataList, k)

\* generateNicheRecommendations(keywordDataList, preferences); an absent or empty
\* preferences.industry is the empty string
generateNicheRecommendations(keywordDataList, preferences, k) ==
    LET all == NichesOf(keywordDataList, k)
        Matches(niche) ==
            \/ Includes(niche.niche_name, preferences.industry)
            \/ \E i \in 1..Len(niche.related_keywords) :
                   Includes(niche.related_keywords[i], preferences.industry)
    IN  [niches |-> IF preferences.industry # <<>>
                    THEN SelectSeq(all.niches, Matches)
                    ELSE all.niches,
         k |-> all.k]

----------------------------------------------------------------------------
(* Scorers *)

RECURSIVE SumField(_, _)
SumField(sites, f) ==
    IF sites = <<>> THEN Num(0)
    ELSE JsAdd(SumField(SubSeq(sites, 1, Len(sites) - 1), f), Get(sites[Len(sites)], f))

\* calculateCompetitionScore(niche): resp is the outcome of the backlink provider
\* call; the niche comes back with the top_competitors the call stored in it
calculateCompetitionScore(niche, resp) ==
    IF ~env.AHREFS_API_KEY
    THEN LET baseScore == JsMul(Get(niche, "competition"), 100, 1)
             volumeAdjustment == JsMul(MathLog10(Get(niche, "monthly_search_volume")), 2, 1)
             cpcAdjustment == JsMul(Get(niche, "estimated_cpc"), 5, 1)
             finalScore == JsAdd(JsAdd(JsMul(baseScore, 6, 10),
                                       JsMul(volumeAdjustment, 2, 10)),
                                 JsMul(cpcAdjustment, 2, 10))
         IN  [score |-> MathMin(Num(100000), MathMax(Num(0), finalScore)),
              niche |-> niche]
    ELSE IF resp.kind = "throw"
    THEN [score |-> JsAdd(JsMul(Get(niche, "competition"), 80, 1), Num(20000)),
          niche |-> niche]
    ELSE IF resp.kind = "pages"
    THEN LET topSites == Slice(resp.pages, 10)
             top_competitors ==
                 [i \in 1..Len(topSites) |->
                     [domain |-> topSites[i].url,
                      domain_authority |-> topSites[i].domain_rating,
                      estimated_traffic |-> topSites[i].organic_traffic]]
             avgDomainAuthority ==
                 JsDivCount(SumField(topSites, "domain_rating"), Len(topSites))
             avgBacklinks == JsDivCount(SumField(topSites, "backlinks"), Len(topSites))
         IN  [score |-> MathMin(Num(100000),
                                JsAdd(JsMul(avgDomainAuthority, 7, 10),
                                      JsMul(MathLog10(avgBacklinks), 3, 1))),
              niche |-> [f \in DOMAIN niche \cup {"top_competitors"} |->
                           IF f = "top_competitors" THEN top_competitors ELSE niche[f]]]
    ELSE [score |-> JsMul(Get(niche, "competition"), 100, 1), niche |-> niche]

\* the number of commercial keywords that some niche term includes
RECURSIVE CommercialMatches(_, _)
CommercialMatches(terms, nicheTerms) ==
    IF terms = <<>> THEN 0
    ELSE (IF \E i \in 1..Len(nicheTerms) : Includes(nicheTerms[i], Head(terms))
          THEN 1 ELSE 0) + CommercialMatches(Tail(terms), nicheTerms)

\* evaluateMonetizationPotential with a Math.random() jitter on the final score, as
\* calculateTrendingScore has
evaluateMonetizationPotential_Jittered(niche) ==
    LET cpcFactor == MathMin(Num(5000), JsMul(Get(niche, "estimated_cpc"), 2, 1))
        volumeFactor ==
            MathMin(Num(3000),
                    JsAdd(MathLog10(Get(niche, "monthly_search_volume")), Num(-2000)))
        nicheTerms ==
            <<niche.niche_name>> \o
            (IF "related_keywords" \in DOMAIN niche THEN niche.related_keywords ELSE <<>>)
        commercialIntentScore ==
            MathMin(Num(2000), Num(200 * CommercialMatches(commercialKeywords, nicheTerms)))
        finalScore == JsAdd(JsAdd(cpcFactor, volumeFactor), commercialIntentScore)
    IN  MathMin(Num(10000), JsAdd(finalScore, Num(RandomAt(calls.scorer) * 2 - 1000)))

\* evaluateMonetizationPotential(niche)
evaluateMonetizationPotential(niche) ==
    LET cpcFactor == MathMin(Num(5000), JsMul(Get(niche, "estimated_cpc"), 2, 1))
        volumeFactor ==
            MathMin(Num(3000),
                    JsAdd(MathLog10(Get(niche, "monthly_search_volume")), Num(-2000)))
        nicheTerms ==
            <<niche.niche_name>> \o
            (IF "related_keywords" \in DOMAIN niche THEN niche.related_keywords ELSE <<>>)
        commercialIntentScore ==
            MathMin(Num(2000), Num(200 * CommercialMatches(commercialKeywords, nicheTerms)))
        finalScore == JsAdd(JsAdd(cpcFactor, volumeFactor), commercialIntentScore)
    IN  MathMin(Num(10000), finalScore)

RECURSIVE SumInts(_)
SumInts(s) == IF s = <<>> THEN 0 ELSE Head(s) + SumInts(Tail(s))

\* calculateTrendingScore(nicheName): resp is the outcome of the trends provider
\* call, k the number of Math.random() calls made before
calculateTrendingScore(nicheName, resp, k) ==
    IF ~env.GOOGLE_TRENDS_API_KEY
    THEN LET hash == SumCodes(nicheName)
             baseScore == Num(((hash % 60) * 1000) \div 10 + 2000)
         IN  [score |-> MathMin(Num(10000), JsAdd(baseScore, Num(RandomAt(k) * 2 - 1000))),
              draws |-> 1]
    ELSE IF resp.kind = "timeline"
    THEN LET y == resp.values
             n == Len(y)
             avgInterest == JsDivInts(SumInts(y), n)
             sumX == SumInts([i \in 1..n |-> i - 1])
             sumY == SumInts(y)
             sumXY == SumInts([i \in 1..n |-> (i - 1) * y[i]])
             sumXX == SumInts([i \in 1..n |-> (i - 1) * (i - 1)])
             slope == JsDivInts(n * sumXY - sumX * sumY, n * sumXX - sumX * sumX)
             trendScore == JsAdd(JsMul(avgInterest, 1, 20), JsMul(slope, 20, 1))
         IN  [score |-> MathMin(Num(10000), MathMax(Num(0), trendScore)), draws |-> 0]
    ELSE [score |-> Num(5000), draws |-> 0]

----------------------------------------------------------------------------
(* analyzeNiche: scoring, filtering, ranking *)

\* the niche with its three scores
Scored(niche, competitionScore, monetizationPotential, trendingScore) ==
    [f \in DOMAIN niche \cup {"competition_score", "monetization_potential", "trending_score"} |->
        IF f = "competition_score" THEN competitionScore
        ELSE IF f = "monetization_potential" THEN monetizationPotential
        ELSE IF f = "trending_score" THEN trendingScore
        ELSE niche[f]]

\* Promise.all(niches.map(async niche => ...)): the i-th backlink and trends provider
\* calls get the outcomes backlinks[i] and trends[i], the scripts being repeated cyclically
RECURSIVE ScoreFrom(_, _, _, _, _)
ScoreFrom(list, i, backlinks, trends, k) ==
    IF i > Len(list) THEN <<>>
    ELSE LET competition ==
                 calculateCompetitionScore(list[i], backlinks[((i - 1) % Len(backlinks)) + 1])
             monetizationPotential == evaluateMonetizationPotential(competition.niche)
             trending ==
                 calculateTrendingScore(list[i].niche_name,
                                        trends[((i - 1) % Len(trends)) + 1], k)
         IN  <<Scored(competition.niche, competition.score, monetizationPotential,
                      trending.score)>>
             \o ScoreFrom(list, i + 1, backlinks, trends, k + trending.draws)

\* the callback of niches.map for one niche: backlink and trend are the outcomes of its
\* two provider calls, k the number of Math.random() calls made before
ScoreOne(niche, backlink, trend, k) ==
    LET competition == calculateCompetitionScore(niche, backlink)
        monetizationPotential == evaluateMonetizationPotential(competition.niche)
        trending == calculateTrendingScore(niche.niche_name, trend, k)
    IN  [niche |-> Scored(competition.niche, competition.score, monetizationPotential,
                          trending.score),
         draws |-> trending.draws]

\* Promise.all keeps a resolved value at the position of its promise, whenever it settles
Settle_InCompletionOrder(results, i, value) ==
    LET free == {j \in 1..Len(results) : "pending" \in DOMAIN results[j]}
        first == CHOOSE j \in free : \A l \in free : j <= l
    IN  [results EXCEPT ![first] = value]
Settle(results, i, value) == [results EXCEPT ![i] = value]

\* the weighted score of the sort comparator
WeightedScore(niche) ==
    JsAdd(JsAdd(JsMul(JsAdd(Num(10000), JsNeg(niche.competition_score)), 4, 10),
                JsMul(niche.monetization_potential, 4, 10)),
          JsMul(niche.trending_score, 2, 10))

\* the comparator (a, b) => scoreB - scoreA
Compare(a, b) == JsAdd(WeightedScore(b), JsNeg(WeightedScore(a)))

\* what sort makes of the comparator's value: NaN counts as 0
SortCompare(a, b) ==
    LET v == Compare(a, b) IN IF v.t = "nan" THEN Num(0) ELSE v

\* the comparator ranks a strictly before b
Before(a, b) == JsLt(SortCompare(a, b), Num(0))

Reverse(s) == [i \in 1..Len(s) |-> s[Len(s) + 1 - i]]

\* the length of the run the list starts with, len >= 2 of its elements being known to
\* belong to it: a run is non-descending, or strictly descending
RECURSIVE RunLength(_, _, _)
RunLength(list, len, descending) ==
    IF len = Len(list) THEN len
    ELSE IF descending # Before(list[len + 1], list[len]) THEN len
    ELSE RunLength(list, len + 1, descending)

\* the number of elements of sorted[1..right] the pivot is placed after, found by
\* bisection between left and right
RECURSIVE BinaryPosition(_, _, _, _)
BinaryPosition(sorted, pivot, left, right) ==
    IF left >= right THEN left
    ELSE LET mid == left + ((right - left) \div 2)
         IN  IF Before(pivot, sorted[mid + 1])
             THEN BinaryPosition(sorted, pivot, left, mid)
             ELSE BinaryPosition(sorted, pivot, mid + 1, right)

\* list[1..start] is sorted: each later element is inserted into it in turn
RECURSIVE BinaryInsertionSort(_, _)
BinaryInsertionSort(list, start) ==
    IF start >= Len(list) THEN list
    ELSE LET pivot == list[start + 1]
             pos == BinaryPosition(list, pivot, 0, start)
         IN  BinaryInsertionSort(SubSeq(list, 1, pos) \o <<pivot>>
                                    \o SubSeq(list, pos + 1, start)
                                    \o SubSeq(list, start + 2, Len(list)),
                                 start + 1)

\* Array.prototype.sort with the comparator, as Node sorts an array of fewer than 64
\* elements: the initial run is found (and reversed when descending), the remaining
\* elements are inserted by bisection. The sort is stable; where the comparator yields
\* NaN it is not a consistent ordering and the outcome is the one this procedure gives.
SortNiches(list) ==
    IF Len(list) < 2 THEN list
    ELSE LET descending == Before(list[2], list[1])
             run == RunLength(list, 2, descending)
             made == IF descending
                     THEN Reverse(SubSeq(list, 1, run)) \o SubSeq(list, run + 1, Len(list))
                     ELSE list
         IN  BinaryInsertionSort(made, run)

\* the filter written as !(niche.monetization_potential < 6)
Viable_NotBelow(niche) == ~JsLt(niche.monetization_potential, Num(6000))
\* niche.monetization_potential >= 6
Viable(niche) == JsGe(niche.monetization_potential, Num(6000))

\* scoredNiches.filter(...).sort(...).slice(0, limit)
FilterSortLimit(scored, limit) == Slice(SortNiches(SelectSeq(scored, Viable)), limit)

\* the response object of a successful analysis (its timestamp left out)
Response(filtered) ==
    [success |-> TRUE,
     niche_recommendations |->
        [i \in 1..Len(filtered) |->
            [niche_name |-> filtered[i].niche_name,
             monthly_search_volume |-> filtered[i].monthly_search_volume,
             competition_score |-> ToFixed2(filtered[i].competition_score),
             monetization_potential |-> ToFixed2(filtered[i].monetization_potential),
             trending_score |-> ToFixed2(filtered[i].trending_score),
             estimated_cpc |-> ToFixed2(filtered[i].estimated_cpc),
             related_keywords |-> Slice(filtered[i].related_keywords, 10),
             top_competitors |-> Slice(filtered[i].top_competitors, 5)]]]

\* the object returned by the catch block of analyzeNiche
Failure(message) == [success |-> FALSE, error |-> message, details |-> "stack"]

----------------------------------------------------------------------------
(* analyzeNiche: the request *)

\* const { keywords = [], limit = 5, preferences = {} } = options
KeywordsOf(options) ==
    IF "keywords" \in DOMAIN options THEN options.keywords
    ELSE [type |-> "array", items |-> <<>>]

LimitOf(options) == IF "limit" \in DOMAIN options THEN options.limit ELSE 5

PreferencesOf(options) ==
    IF "preferences" \in DOMAIN options THEN options.preferences ELSE [industry |-> <<>>]

\* the same test without its keywords.length === 0 disjunct
InvalidKeywords_NoEmpty(keywords) == keywords.type # "array"
\* !keywords || !Array.isArray(keywords) || keywords.length === 0
InvalidKeywords(keywords) == keywords.type # "array" \/ Len(keywords.items) = 0

----------------------------------------------------------------------------
(* The store *)

\* rows of niches with the given name, in table order
RowsNamed(db, name) ==
    LET Named(row) == row.name = name
    IN  SelectSeq(db.niches, Named)

\* UPDATE niches SET ... WHERE id = nicheId
UpdateNiche(db, nicheId, niche) ==
    [db EXCEPT !.niches =
        [r \in 1..Len(db.niches) |->
            IF db.niches[r].id = nicheId
            THEN [id |-> nicheId,
                  name |-> db.niches[r].name,
                  monthly_search_volume |-> niche.monthly_search_volume,
                  competition_score |-> niche.competition_score,
                  monetization_potential |-> niche.monetization_potential,
                  trending_score |-> niche.trending_score,
                  estimated_cpc |-> niche.estimated_cpc]
            ELSE db.niches[r]]]

\* INSERT INTO niches ... RETURNING id
InsertNiche(db, niche) ==
    [db EXCEPT !.niches = Append(db.niches,
                              [id |-> db.nextId,
                               name |-> niche.niche_name,
                               monthly_search_volume |-> niche.monthly_search_volume,
                               competition_score |-> niche.competition_score,
                               monetization_potential |-> niche.monetization_potential,
                               trending_score |-> niche.trending_score,
                               estimated_cpc |-> niche.estimated_cpc]),
                  !.nextId = db.nextId + 1]

\* DELETE FROM niche_keywords WHERE niche_id = nicheId
DeleteKeywords(db, nicheId) ==
    LET Other(row) == row.niche_id # nicheId
    IN  [db EXCEPT !.niche_keywords = SelectSeq(db.niche_keywords, Other)]

\* DELETE FROM niche_competitors WHERE niche_id = nicheId
DeleteCompetitors(db, nicheId) ==
    LET Other(row) == row.niche_id # nicheId
    IN  [db EXCEPT !.niche_competitors = SelectSeq(db.niche_competitors, Other)]

----------------------------------------------------------------------------
(* saveAnalysisResults: where the batch goes next *)

\* after the niche at index i: the next niche, or COMMIT
AfterNiche(i) ==
    IF i < Len(filteredNiches) THEN [pc |-> "check", i |-> i + 1]
    ELSE [pc |-> "commit", i |-> i]

\* after the related keywords of the niche at index i
AfterKeywords(i) ==
    IF Len(filteredNiches[i].top_competitors) > 0
    THEN [pc |-> "delete_competitors", i |-> i]
    ELSE AfterNiche(i)

\* after the niche row of the niche at index i
AfterUpsert(i) ==
    IF Len(filteredNiches[i].related_keywords) > 0
    THEN [pc |-> "delete_keywords", i |-> i]
    ELSE AfterKeywords(i)

\* the statement is recorded with whether the store accepted it
Issued(sql, ok) == Append(queries, [sql |-> sql, ok |-> ok])

----------------------------------------------------------------------------
(* Inputs *)

\* 'hydroponics'
kwHydroponics == <<104, 121, 100, 114, 111, 112, 111, 110, 105, 99, 115>>
\* 'tv'
kwTv == <<116, 118>>
\* 'hydro'
strHydro == <<104, 121, 100, 114, 111>>
\* 'best tv deal'
strBestTvDeal == <<98, 101, 115, 116, 32, 116, 118, 32, 100, 101, 97, 108>>
\* the keywords a request is built from
KeywordPool == {kwHydroponics, kwTv}

\* the longest keyword list of a request
MaxKeywords == 2
\* the period of the stream of Math.random() values
RandPeriod == 2
\* the most pages a backlink answer carries
MaxPages == 2

\* Math.random() values in thousandths: the least, and one just below 1
RandVals == {0, 999}

RandomStreams == UNION {[1..n -> RandVals] : n \in 1..RandPeriod}

KeywordLists == UNION {[1..n -> KeywordPool] : n \in 1..MaxKeywords}

\* values of options.keywords that are no non-empty array
BadKeywords ==
    {[type |-> "null"], [type |-> "string"], [type |-> "array", items |-> <<>>]}

NoResponse == [kind |-> "none"]

\* answers of the keyword provider to the metrics query: an error, no result, the
\* metrics of the keyword, metrics without a bid
KeywordResponses ==
    {[kind |-> "throw"],
     [kind |-> "results", results |-> <<>>],
     [kind |-> "results",
      results |-> <<[avg_monthly_searches |-> Num(10000000),
                     competition_index |-> Num(45000),
                     high_top_of_page_bid_micros |-> Num(2000000000)]>>],
     [kind |-> "results",
      results |-> <<[avg_monthly_searches |-> Num(10000000),
                     competition_index |-> Num(45000)]>>]}

\* answers of the keyword provider to the related-keywords query
RelatedResponses ==
    {[kind |-> "throw"], [kind |-> "results", results |-> <<strBestTvDeal>>]}

Page(url, rating, traffic, backlinks) ==
    [url |-> url, domain_rating |-> Num(rating * 1000),
     organic_traffic |-> Num(traffic * 1000), backlinks |-> Num(backlinks * 1000)]

PagePool ==
    {Page("example.com", 45, 30000, 5000), Page("competitor.com", 52, 45000, 7500),
     Page("new.example", 0, 0, 0)}

\* answers of the backlink provider: an error, an answer without pages, page lists
BacklinkResponses ==
    {[kind |-> "throw"], [kind |-> "nodata"]} \cup
    {[kind |-> "pages", pages |-> ps] : ps \in UNION {[1..n -> PagePool] : n \in 0..MaxPages}}

\* answers of the trends provider: an error, a malformed answer, time series
TrendResponses ==
    {[kind |-> "throw"], [kind |-> "malformed"]} \cup
    {[kind |-> "timeline", values |-> vs] :
        vs \in {<<>>, <<50>>, <<60, 65, 70, 75, 80>>, <<80, 40, 10>>, <<0, 100>>}}

\* the provider outcomes of one analysis: one answer per provider, given to each call
BacklinkScripts ==
    {<<[kind |-> "throw"]>>, <<[kind |-> "nodata"]>>,
     <<[kind |-> "pages",
        pages |-> <<Page("example.com", 45, 30000, 5000),
                    Page("competitor.com", 52, 45000, 7500)>>]>>,
     <<[kind |-> "pages", pages |-> <<Page("example.com", 45, 30000, 5000)>>],
       [kind |-> "pages", pages |-> <<>>],
       [kind |-> "nodata"]>>}

TrendScripts ==
    {<<[kind |-> "throw"]>>, <<[kind |-> "timeline", values |-> <<60, 65, 70, 75, 80>>]>>}

EmptyStore ==
    [niches |-> <<>>, niche_keywords |-> <<>>, niche_competitors |-> <<>>, nextId |-> 1]

\* a store that already holds the niche 'hydroponics' with a keyword and a competitor
UsedStore ==
    [niches |-> <<[id |-> 1, name |-> kwHydroponics,
                   monthly_search_volume |-> Num(5000000),
                   competition_score |-> Num(40000),
                   monetization_potential |-> Num(7000),
                   trending_score |-> Num(5000),
                   estimated_cpc |-> Num(1500)]>>,
     niche_keywords |-> <<[niche_id |-> 1, keyword |-> strHydro]>>,
     niche_competitors |-> <<[niche_id |-> 1, domain |-> "old.example",
                              domain_authority |-> Num(10000),
                              estimated_traffic |-> Num(100000)]>>,
     nextId |-> 2]

InitialStores == {EmptyStore, UsedStore}

Keywords(ks) == [type |-> "array", items |-> ks]

\* requests with a keyword list only: the limit and the preferences take their defaults
PlainRequests == {[keywords |-> Keywords(ks)] : ks \in KeywordLists}

\* requests with a limit
LimitedRequests == {[keywords |-> Keywords(ks), limit |-> l] : ks \in KeywordLists, l \in {1, 2}}

\* requests that ask for nothing, and for more than there is
WideRequests == {[keywords |-> Keywords(ks), limit |-> l] : ks \in KeywordLists, l \in {0, 50}}

\* requests with an industry preference
PreferenceRequests ==
    {[keywords |-> Keywords(ks), preferences |-> [industry |-> strHydro]] :
        ks \in KeywordLists}
    \cup {[keywords |-> Keywords(ks), limit |-> 1, preferences |-> [industry |-> strHydro]] :
        ks \in KeywordLists}

\* requests without a non-empty keyword list
BadRequests == {[keywords |-> k, limit |-> 5] : k \in BadKeywords} \cup {[limit |-> 5]}

Environments ==
    [KEYWORD_PLANNER_API_KEY : BOOLEAN, AHREFS_API_KEY : BOOLEAN,
     GOOGLE_TRENDS_API_KEY : BOOLEAN, SAVE_ANALYSIS_RESULTS : BOOLEAN]

NoScorerCall == [op |-> "none"]

\* no function of the other modules has been called
NoCall == [op |-> "none"]

----------------------------------------------------------------------------
(* Initial states *)

\* what every run starts from, whatever its inputs
Idle ==
    /\ randomPos = 0
    /\ pending = {}
    /\ keywordDataResults = <<>>
    /\ niches = <<>>
    /\ scoredNiches = <<>>
    /\ filteredNiches = <<>>
    /\ result = [pending |-> TRUE]
    /\ calls = [fetch |-> 0, post |-> 0, scorer |-> 0,
                keywords |-> <<>>, related |-> <<>>, draws |-> <<>>, fetched |-> <<>>,
                backlinks |-> <<>>, trends |-> <<>>, scored |-> <<>>]
    /\ client = [connects |-> 0, acquired |-> 0, released |-> 0]
    /\ queries = <<>>
    /\ save = [i |-> 0, nicheId |-> 0, j |-> 0]
    /\ scorer = NoScorerCall
    /\ registry = NoCall
    /\ content = NoCall

\* To keep the product of the inputs small, the runs are of four families: a request
\* without keywords under every environment; the random stream and the request varied with
\* no provider key; the providers varied for the plain requests; the store varied, with
\* saving enabled, for the requests with a limit.
Init ==
    /\ Idle
    /\ pc = "start"
    /\ env \in Environments
    /\ randomStream \in RandomStreams
    /\ store \in InitialStores
    /\ txn = store
    /\ \/ /\ request \in BadRequests
          /\ randomStream = <<999>>
          /\ store = EmptyStore
       \/ /\ request \in PlainRequests \cup LimitedRequests \cup WideRequests
                            \cup PreferenceRequests
          /\ ~env.KEYWORD_PLANNER_API_KEY
          /\ ~env.AHREFS_API_KEY
          /\ ~env.GOOGLE_TRENDS_API_KEY
          /\ ~env.SAVE_ANALYSIS_RESULTS
          /\ store = EmptyStore
       \/ /\ request \in PlainRequests
          /\ ~env.SAVE_ANALYSIS_RESULTS
          /\ randomStream = <<999>>
          /\ store = EmptyStore
       \/ /\ request \in LimitedRequests
          /\ env.SAVE_ANALYSIS_RESULTS
          /\ ~env.KEYWORD_PLANNER_API_KEY
          /\ ~env.GOOGLE_TRENDS_API_KEY
          /\ randomStream = <<999>>

----------------------------------------------------------------------------
(* analyzeNiche *)

\* the call up to its first await: the request is validated and the fetches are issued
Validate ==
    /\ pc = "start"
    /\ LET keywords == KeywordsOf(request)
       IN  IF InvalidKeywords(keywords)
           THEN /\ result' = [success |-> FALSE,
                              error |-> "No keywords provided for niche analysis"]
                /\ pc' = "done"
                /\ UNCHANGED <<pending, keywordDataResults>>
           ELSE /\ pending' = 1..Len(keywords.items)
                /\ keywordDataResults' =
                       [i \in 1..Len(keywords.items) |-> [pending |-> TRUE]]
                /\ pc' = "fetch"
                /\ UNCHANGED result
    /\ \E issued \in {IF InvalidKeywords(KeywordsOf(request)) THEN 0
                       ELSE Len(KeywordsOf(request).items)} :
          calls' = [calls EXCEPT !.keywords = [i \in 1..issued |-> NoResponse],
                                 !.related = [i \in 1..issued |-> NoResponse],
                                 !.draws = [i \in 1..issued |-> 0]]
    /\ UNCHANGED <<registry, content, env, request, randomStream, randomPos, niches, scoredNiches,
                   filteredNiches, client, queries, save, txn, store, scorer>>

\* fetchKeywordData(keywords[i]) completes. Without a provider key it runs to its end
\* inside keywords.map, so in the order of the list; with one, in any order.
FetchKeywordData(i) ==
    /\ pc = "fetch"
    /\ i \in pending
    /\ env.KEYWORD_PLANNER_API_KEY \/ \A j \in pending : i <= j
    /\ \E resp \in IF env.KEYWORD_PLANNER_API_KEY THEN KeywordResponses ELSE {NoResponse},
          rel \in IF env.KEYWORD_PLANNER_API_KEY THEN RelatedResponses ELSE {NoResponse} :
          LET fetched == fetchKeywordData(KeywordsOf(request).items[i], resp, rel, randomPos)
          IN  /\ keywordDataResults' = Settle(keywordDataResults, i, fetched.data)
              /\ randomPos' = randomPos + fetched.draws
              /\ calls' = [calls EXCEPT !.fetch = @ + 1, !.post = @ + fetched.posts,
                                        !.keywords[i] = resp,
                                        !.related[i] = IF fetched.posts = 2 THEN rel ELSE NoResponse,
                                        !.draws[i] = randomPos,
                                        !.fetched = Append(@, i)]
    /\ pending' = pending \ {i}
    /\ UNCHANGED <<registry, content, env, request, randomStream, pc, niches, scoredNiches, filteredNiches,
                   result, client, queries, save, txn, store, scorer>>

\* every fetch has completed: the failed records are dropped, the candidates generated
\* and their scoring issued
GenerateNiches ==
    /\ pc = "fetch"
    /\ pending = {}
    /\ LET validKeywordData == ValidKeywordData(keywordDataResults)
       IN  IF Len(validKeywordData) = 0
           THEN /\ result' =
                       [success |-> FALSE,
                        error |-> "Failed to retrieve valid data for any of the provided keywords"]
                /\ pc' = "done"
                /\ UNCHANGED <<niches, randomPos>>
           ELSE \E generated \in {generateNicheRecommendations(validKeywordData,
                                                PreferencesOf(request), randomPos)} :
                    /\ niches' = generated.niches
                    /\ randomPos' = generated.k
                    /\ pc' = "score"
                    /\ UNCHANGED result
    /\ UNCHANGED <<registry, content, env, request, randomStream, pending, keywordDataResults, scoredNiches,
                   filteredNiches, calls, client, queries, save, txn, store, scorer>>

\* every scorer has completed: the candidates are filtered, sorted and cut to the limit;
\* then the results are saved, or the response is returned
ScoreNiches ==
    /\ pc = "score"
    /\ \E backlinks \in IF env.AHREFS_API_KEY THEN BacklinkScripts ELSE {<<NoResponse>>},
          trends \in IF env.GOOGLE_TRENDS_API_KEY THEN TrendScripts ELSE {<<NoResponse>>} :
          /\ scoredNiches' = ScoreFrom(niches, 1, backlinks, trends, randomPos)
          /\ filteredNiches' = FilterSortLimit(scoredNiches', LimitOf(request))
          /\ randomPos' = randomPos + (IF env.GOOGLE_TRENDS_API_KEY THEN 0 ELSE Len(niches))
          /\ calls' = [calls EXCEPT !.scorer = @ + 3 * Len(niches),
                                    !.backlinks = backlinks, !.trends = trends,
                                    !.scored = [i \in 1..Len(niches) |-> i]]
          /\ IF env.SAVE_ANALYSIS_RESULTS
             THEN pc' = "connect" /\ UNCHANGED result
             ELSE pc' = "done" /\ result' = Response(filteredNiches')
    /\ UNCHANGED <<registry, content, env, request, randomStream, pending, keywordDataResults, niches,
                   client, queries, save, txn, store, scorer>>

----------------------------------------------------------------------------
(* saveAnalysisResults, and what analyzeNiche returns after it *)

\* the catch block of saveAnalysisResults rethrows, and analyzeNiche catches
SaveThrew == result' = Failure("Niche analysis failed")

\* pool.connect(): a failed connect leaves no client to roll back or release
Connect ==
    /\ pc = "connect"
    /\ \E ok \in BOOLEAN :
          /\ client' = [client EXCEPT !.connects = @ + 1,
                                      !.acquired = @ + (IF ok THEN 1 ELSE 0)]
          /\ IF ok THEN pc' = "begin" /\ UNCHANGED result
             ELSE pc' = "done" /\ SaveThrew
    /\ UNCHANGED <<registry, content, env, request, randomStream, randomPos, pending, keywordDataResults,
                   niches, scoredNiches, filteredNiches, calls, queries, save, txn,
                   store, scorer>>

\* BEGIN
Begin ==
    /\ pc = "begin"
    /\ \E ok \in BOOLEAN :
          /\ queries' = Issued("BEGIN", ok)
          /\ IF ~ok THEN pc' = "rollback" /\ UNCHANGED <<save, txn>>
             ELSE /\ txn' = store
                  /\ IF Len(filteredNiches) > 0
                     THEN pc' = "check" /\ save' = [save EXCEPT !.i = 1]
                     ELSE pc' = "commit" /\ UNCHANGED save
    /\ UNCHANGED <<registry, content, env, request, randomStream, randomPos, pending, keywordDataResults,
                   niches, scoredNiches, filteredNiches, result, calls, client, store,
                   scorer>>

\* SELECT id FROM niches WHERE name = $1
CheckNiche ==
    /\ pc = "check"
    /\ \E ok \in BOOLEAN :
          /\ queries' = Issued("SELECT", ok)
          /\ IF ~ok THEN pc' = "rollback" /\ UNCHANGED save
             ELSE LET rows == RowsNamed(txn, filteredNiches[save.i].niche_name)
                  IN  /\ pc' = "upsert"
                      /\ save' = [save EXCEPT !.nicheId =
                                      IF Len(rows) > 0 THEN rows[1].id ELSE 0]
    /\ UNCHANGED <<registry, content, env, request, randomStream, randomPos, pending, keywordDataResults,
                   niches, scoredNiches, filteredNiches, result, calls, client, txn,
                   store, scorer>>

\* UPDATE niches ... of the row found, or INSERT INTO niches ... RETURNING id
UpsertNiche ==
    /\ pc = "upsert"
    /\ \E ok \in BOOLEAN :
          LET niche == filteredNiches[save.i]
              next == AfterUpsert(save.i)
          IN  /\ queries' = Issued(IF save.nicheId # 0 THEN "UPDATE niches"
                                   ELSE "INSERT niches", ok)
              /\ IF ~ok THEN pc' = "rollback" /\ UNCHANGED <<save, txn>>
                 ELSE /\ txn' = IF save.nicheId # 0
                                THEN UpdateNiche(txn, save.nicheId, niche)
                                ELSE InsertNiche(txn, niche)
                      /\ pc' = next.pc
                      /\ save' = [i |-> next.i,
                                  nicheId |-> IF next.i # save.i THEN 0
                                              ELSE IF save.nicheId # 0 THEN save.nicheId
                                              ELSE txn.nextId,
                                  j |-> 0]
    /\ UNCHANGED <<registry, content, env, request, randomStream, randomPos, pending, keywordDataResults,
                   niches, scoredNiches, filteredNiches, result, calls, client, store,
                   scorer>>

\* DELETE FROM niche_keywords WHERE niche_id = $1
DeleteNicheKeywords ==
    /\ pc = "delete_keywords"
    /\ \E ok \in BOOLEAN :
          /\ queries' = Issued("DELETE niche_keywords", ok)
          /\ IF ~ok THEN pc' = "rollback" /\ UNCHANGED <<save, txn>>
             ELSE /\ txn' = DeleteKeywords(txn, save.nicheId)
                  /\ pc' = "insert_keyword"
                  /\ save' = [save EXCEPT !.j = 1]
    /\ UNCHANGED <<registry, content, env, request, randomStream, randomPos, pending, keywordDataResults,
                   niches, scoredNiches, filteredNiches, result, calls, client, store,
                   scorer>>

\* INSERT INTO niche_keywords (niche_id, keyword), for the keyword at index save.j
InsertNicheKeyword ==
    /\ pc = "insert_keyword"
    /\ \E ok \in BOOLEAN :
          LET niche == filteredNiches[save.i]
              next == AfterKeywords(save.i)
          IN  /\ queries' = Issued("INSERT niche_keywords", ok)
              /\ IF ~ok THEN pc' = "rollback" /\ UNCHANGED <<save, txn>>
                 ELSE /\ txn' = [txn EXCEPT !.niche_keywords =
                                    Append(@, [niche_id |-> save.nicheId,
                                               keyword |-> niche.related_keywords[save.j]])]
                      /\ IF save.j < Len(niche.related_keywords)
                         THEN pc' = pc /\ save' = [save EXCEPT !.j = @ + 1]
                         ELSE /\ pc' = next.pc
                              /\ save' = [i |-> next.i,
                                          nicheId |-> IF next.i # save.i THEN 0
                                                      ELSE save.nicheId,
                                          j |-> 0]
    /\ UNCHANGED <<registry, content, env, request, randomStream, randomPos, pending, keywordDataResults,
                   niches, scoredNiches, filteredNiches, result, calls, client, store,
                   scorer>>

\* DELETE FROM niche_competitors WHERE niche_id = $1
DeleteNicheCompetitors ==
    /\ pc = "delete_competitors"
    /\ \E ok \in BOOLEAN :
          /\ queries' = Issued("DELETE niche_competitors", ok)
          /\ IF ~ok THEN pc' = "rollback" /\ UNCHANGED <<save, txn>>
             ELSE /\ txn' = DeleteCompetitors(txn, save.nicheId)
                  /\ pc' = "insert_competitor"
                  /\ save' = [save EXCEPT !.j = 1]
    /\ UNCHANGED <<registry, content, env, request, randomStream, randomPos, pending, keywordDataResults,
                   niches, scoredNiches, filteredNiches, result, calls, client, store,
                   scorer>>

\* INSERT INTO niche_competitors (...), for the competitor at index save.j
InsertNicheCompetitor ==
    /\ pc = "insert_competitor"
    /\ \E ok \in BOOLEAN :
          LET niche == filteredNiches[save.i]
              competitor == niche.top_competitors[save.j]
              next == AfterNiche(save.i)
          IN  /\ queries' = Issued("INSERT niche_competitors", ok)
              /\ IF ~ok THEN pc' = "rollback" /\ UNCHANGED <<save, txn>>
                 ELSE /\ txn' = [txn EXCEPT !.niche_competitors =
                                    Append(@, [niche_id |-> save.nicheId,
                                               domain |-> competitor.domain,
                                               domain_authority |-> competitor.domain_authority,
                                               estimated_traffic |-> competitor.estimated_traffic])]
                      /\ IF save.j < Len(niche.top_competitors)
                         THEN pc' = pc /\ save' = [save EXCEPT !.j = @ + 1]
                         ELSE /\ pc' = next.pc
                              /\ save' = [i |-> next.i,
                                          nicheId |-> IF next.i # save.i THEN 0
                                                      ELSE save.nicheId,
                                          j |-> 0]
    /\ UNCHANGED <<registry, content, env, request, randomStream, randomPos, pending, keywordDataResults,
                   niches, scoredNiches, filteredNiches, result, calls, client, store,
                   scorer>>

\* client.release() in the finally block
Release(c) == [c EXCEPT !.released = @ + 1]

\* COMMIT; when it succeeds the finally block releases the client and analyzeNiche
\* returns its response
Commit ==
    /\ pc = "commit"
    /\ \E ok \in BOOLEAN :
          /\ queries' = Issued("COMMIT", ok)
          /\ IF ~ok THEN pc' = "rollback" /\ UNCHANGED <<store, client, result>>
             ELSE /\ store' = txn
                  /\ client' = Release(client)
                  /\ result' = Response(filteredNiches)
                  /\ pc' = "done"
    /\ UNCHANGED <<registry, content, env, request, randomStream, randomPos, pending, keywordDataResults,
                   niches, scoredNiches, filteredNiches, calls, save, txn, scorer>>

\* a catch block that rethrows without issuing ROLLBACK
Rollback_NoStatement ==
    /\ pc = "rollback"
    /\ txn' = store
    /\ client' = Release(client)
    /\ SaveThrew
    /\ pc' = "done"
    /\ UNCHANGED <<registry, content, env, request, randomStream, randomPos, pending, keywordDataResults,
                   niches, scoredNiches, filteredNiches, calls, save, store, scorer,
                   queries>>

\* a release written after the ROLLBACK in the catch block rather than in a finally
\* block: a failing ROLLBACK skips it
Rollback_NoFinally ==
    /\ pc = "rollback"
    /\ \E ok \in BOOLEAN :
          /\ queries' = Issued("ROLLBACK", ok)
          /\ client' = IF ok THEN Release(client) ELSE client
    /\ txn' = store
    /\ SaveThrew
    /\ pc' = "done"
    /\ UNCHANGED <<registry, content, env, request, randomStream, randomPos, pending, keywordDataResults,
                   niches, scoredNiches, filteredNiches, calls, save, store, scorer>>

\* the catch block: ROLLBACK, which may itself fail; the finally block releases the
\* client either way, and the error is thrown to analyzeNiche
Rollback ==
    /\ pc = "rollback"
    /\ \E ok \in BOOLEAN : queries' = Issued("ROLLBACK", ok)
    /\ txn' = store
    /\ client' = Release(client)
    /\ SaveThrew
    /\ pc' = "done"
    /\ UNCHANGED <<registry, content, env, request, randomStream, randomPos, pending, keywordDataResults,
                   niches, scoredNiches, filteredNiches, calls, save, store, scorer>>

Next ==
    \/ Validate
    \/ \E i \in 1..MaxKeywords : FetchKeywordData(i)
    \/ GenerateNiches
    \/ ScoreNiches
    \/ Connect
    \/ Begin
    \/ CheckNiche
    \/ UpsertNiche
    \/ DeleteNicheKeywords
    \/ InsertNicheKeyword
    \/ DeleteNicheCompetitors
    \/ InsertNicheCompetitor
    \/ Commit
    \/ Rollback

Spec == Init /\ [][Next]_vars

----------------------------------------------------------------------------
(* analyzeNiche called with no options, and with keywords that are no strings *)

\* analyzeNiche() : options is undefined
NoOptions == [options |-> "undefined"]

\* the entries 42 and null of a keyword list
numberKeyword == [type |-> "number", value |-> 42]
nullKeyword == [type |-> "null"]

OddKeywordLists ==
    {<<numberKeyword>>, <<nullKeyword>>, <<numberKeyword, nullKeyword>>,
     <<nullKeyword, numberKeyword>>, <<numberKeyword, numberKeyword>>}

\* an array whose entries are of any type
OddKeywords(ks) == [type |-> "array", items |-> ks, entries |-> "any"]

OddRequests ==
    {NoOptions}
    \cup {[keywords |-> OddKeywords(ks)] : ks \in OddKeywordLists}
    \cup {[keywords |-> OddKeywords(ks), limit |-> 1,
           preferences |-> [industry |-> strHydro]] : ks \in OddKeywordLists}

\* the request is one of these
IsOdd(options) ==
    IF "options" \in DOMAIN options THEN TRUE
    ELSE IF "keywords" \in DOMAIN options THEN "entries" \in DOMAIN options.keywords
    ELSE FALSE

\* the steps of analyzeNiche inside its try block, but for the first
TryBlock_FromValidation ==
    {"validate", "fetch", "generate", "score", "rank", "save", "respond"}

\* the steps of analyzeNiche inside its try block: all of them
TryBlock ==
    {"destructure", "validate", "fetch", "generate", "score", "rank", "save", "respond"}

\* what the promise of analyzeNiche settles to when a step throws: the object of the
\* catch block for a step inside the try block, a rejection for any other
Thrown(step) ==
    IF step \in TryBlock THEN Failure("Niche analysis failed")
    ELSE [rejected |-> TRUE, error |-> "TypeError"]

\* mockKeywordData(42): the length of a number is undefined, so the three metrics are
\* NaN; the related keywords are built from the number's digits
mockNumberData(keyword, k) ==
    [success |-> TRUE,
     keyword |-> keyword,
     search_volume |-> NaN,
     competition |-> NaN,
     cpc |-> NaN,
     related_keywords |-> mockKeywordData(<<52, 50>>, k).related_keywords]

InitAny ==
    \/ Init
    \/ /\ Idle
       /\ pc = "start"
       /\ env \in {e \in Environments :
                       /\ ~e.KEYWORD_PLANNER_API_KEY /\ ~e.AHREFS_API_KEY
                       /\ ~e.GOOGLE_TRENDS_API_KEY}
       /\ request \in OddRequests
       /\ randomStream \in RandomStreams
       /\ store = EmptyStore
       /\ txn = store

\* the destructuring of an undefined options throws a TypeError
AnalyzeWithoutOptions ==
    /\ pc = "start"
    /\ "options" \in DOMAIN request
    /\ result' = Thrown("destructure")
    /\ pc' = "done"
    /\ UNCHANGED <<registry, content, env, request, randomStream, randomPos, pending,
                   keywordDataResults, niches, scoredNiches, filteredNiches, calls,
                   client, queries, save, txn, store, scorer>>

\* keywords.map(fetchKeywordData) with no provider key: every call runs to its end
\* inside the map. mockKeywordData(null) throws a TypeError, in the try block of
\* fetchKeywordData and again in its catch block, so that fetch rejects and
\* Promise.all with it
FetchOddKeywords ==
    /\ pc = "start"
    /\ IsOdd(request)
    /\ "keywords" \in DOMAIN request
    /\ LET keywords == KeywordsOf(request).items
           numbers == {i \in 1..Len(keywords) : keywords[i] = numberKeyword}
           Earlier(i) == Cardinality({j \in numbers : j < i})
       IN  /\ randomPos' = randomPos + 3 * Cardinality(numbers)
           /\ calls' = [calls EXCEPT !.fetch = @ + Len(keywords)]
           /\ keywordDataResults' =
                 [i \in 1..Len(keywords) |->
                     IF i \in numbers
                     THEN mockNumberData(keywords[i], randomPos + 3 * Earlier(i))
                     ELSE [rejected |-> TRUE, error |-> "TypeError"]]
           /\ IF numbers # 1..Len(keywords)
              THEN result' = Thrown("fetch") /\ pc' = "done"
              ELSE pc' = "odd" /\ UNCHANGED result
    /\ UNCHANGED <<registry, content, env, request, randomStream, pending, niches,
                   scoredNiches, filteredNiches, client, queries, save, txn, store,
                   scorer>>

\* the candidates of number records are the numbers themselves: no related keyword
\* reaches the volume, floor(NaN) >= 1000 being false, and each costs one draw. With
\* an industry preferred, niche_name.includes of a number throws in the filter;
\* else nicheTerm.includes throws in evaluateMonetizationPotential, after
\* calculateCompetitionScore has been called for every candidate
ScoreOddNiches ==
    /\ pc = "odd"
    /\ LET Draws(i) == Len(keywordDataResults[i].related_keywords)
           Sum[i \in 0..Len(keywordDataResults)] == IF i = 0 THEN 0 ELSE Sum[i - 1] + Draws(i)
           generated ==
               [i \in 1..Len(keywordDataResults) |->
                   [niche_name |-> keywordDataResults[i].keyword,
                    monthly_search_volume |-> keywordDataResults[i].search_volume,
                    competition |-> keywordDataResults[i].competition,
                    estimated_cpc |-> keywordDataResults[i].cpc,
                    related_keywords |-> keywordDataResults[i].related_keywords,
                    top_competitors |-> <<>>]]
       IN  /\ randomPos' = randomPos + Sum[Len(keywordDataResults)]
           /\ IF PreferencesOf(request).industry # <<>>
              THEN /\ result' = Thrown("generate")
                   /\ UNCHANGED <<niches, calls>>
              ELSE /\ result' = Thrown("score")
                   /\ niches' = generated
                   /\ calls' = [calls EXCEPT !.scorer = @ + 2 * Len(generated)]
    /\ pc' = "done"
    /\ UNCHANGED <<registry, content, env, request, randomStream, pending,
                   keywordDataResults, scoredNiches, filteredNiches, client, queries,
                   save, txn, store, scorer>>

\* the steps of an analysis of a request of either kind
NextAny ==
    \/ ~IsOdd(request) /\ Next
    \/ AnalyzeWithoutOptions
    \/ FetchOddKeywords
    \/ ScoreOddNiches

SpecAny == InitAny /\ [][NextAny]_vars

----------------------------------------------------------------------------
(* The exported scorers, called directly *)

\* 'best hydroponics systems', 'buy hydroponics', 'hydroponics price'
strBestSystems ==
    <<98, 101, 115, 116, 32, 104, 121, 100, 114, 111, 112, 111, 110, 105, 99, 115, 32,
      115, 121, 115, 116, 101, 109, 115>>
strBuy == <<98, 117, 121, 32, 104, 121, 100, 114, 111, 112, 111, 110, 105, 99, 115>>
strPrice == <<104, 121, 100, 114, 111, 112, 111, 110, 105, 99, 115, 32, 112, 114, 105, 99, 101>>

\* niche objects a caller passes: complete ones, over a range of volumes, competition
\* values and CPCs, and one that has only a name
NicheInputs ==
    {[niche_name |-> name,
      monthly_search_volume |-> Num(volume * 1000),
      competition |-> Num(competition),
      estimated_cpc |-> Num(cpc),
      related_keywords |-> related,
      top_competitors |-> <<>>] :
        name \in {kwHydroponics, strBestSystems},
        volume \in {0, 1, 50, 10000, 1000000},
        competition \in {0, 350, 1000},
        cpc \in {0, 1500, 4000},
        related \in {<<>>, <<strBuy, strPrice>>}}
    \cup {[niche_name |-> kwHydroponics]}

NicheNames == {kwHydroponics, kwTv, strBestSystems, <<>>}

InitScorers ==
    /\ Idle
    /\ pc = "scorers"
    /\ env \in {e \in Environments :
                    ~e.KEYWORD_PLANNER_API_KEY /\ ~e.SAVE_ANALYSIS_RESULTS}
    /\ request = [limit |-> 5]
    /\ randomStream \in RandomStreams
    /\ store = EmptyStore
    /\ txn = store

\* one call of an exported scorer is made from the idle module
CallCompetitionScore ==
    /\ pc = "scorers"
    /\ \E niche \in NicheInputs,
          resp \in IF env.AHREFS_API_KEY THEN BacklinkResponses ELSE {NoResponse} :
          \E out \in {calculateCompetitionScore(niche, resp)} :
             scorer' = [op |-> "calculateCompetitionScore", niche |-> niche,
                        resp |-> resp, score |-> out.score, after |-> out.niche]
    /\ pc' = "called"
    /\ calls' = [calls EXCEPT !.scorer = @ + 1]
    /\ UNCHANGED <<registry, content, env, request, randomStream, randomPos, pending, keywordDataResults,
                   niches, scoredNiches, filteredNiches, result, client, queries,
                   save, txn, store>>

\* evaluateMonetizationPotential assigns to no property of its argument
CallMonetizationPotential ==
    /\ pc = "scorers"
    /\ \E niche \in NicheInputs :
          scorer' = [op |-> "evaluateMonetizationPotential", niche |-> niche,
                     score |-> evaluateMonetizationPotential(niche), after |-> niche]
    /\ pc' = "called"
    /\ calls' = [calls EXCEPT !.scorer = @ + 1]
    /\ UNCHANGED <<registry, content, env, request, randomStream, randomPos, pending, keywordDataResults,
                   niches, scoredNiches, filteredNiches, result, client, queries,
                   save, txn, store>>

CallTrendingScore ==
    /\ pc = "scorers"
    /\ \E nicheName \in NicheNames,
          resp \in IF env.GOOGLE_TRENDS_API_KEY THEN TrendResponses ELSE {NoResponse} :
          \E out \in {calculateTrendingScore(nicheName, resp, randomPos)} :
             /\ scorer' = [op |-> "calculateTrendingScore", nicheName |-> nicheName,
                           resp |-> resp, score |-> out.score]
             /\ randomPos' = randomPos + out.draws
    /\ pc' = "called"
    /\ calls' = [calls EXCEPT !.scorer = @ + 1]
    /\ UNCHANGED <<registry, content, env, request, randomStream, pending, keywordDataResults,
                   niches, scoredNiches, filteredNiches, result, client, queries,
                   save, txn, store>>

\* the record of a scorer call, with the score of a second call on the same argument
Again(call, score) ==
    [f \in DOMAIN call \cup {"again"} |-> IF f = "again" THEN score ELSE call[f]]

\* a second call of evaluateMonetizationPotential with a niche equal by value
CallMonetizationPotentialAgain ==
    /\ pc = "called"
    /\ scorer.op = "evaluateMonetizationPotential"
    /\ "again" \notin DOMAIN scorer
    /\ scorer' = Again(scorer, evaluateMonetizationPotential(scorer.after))
    /\ calls' = [calls EXCEPT !.scorer = @ + 1]
    /\ UNCHANGED <<registry, content, env, request, randomStream, randomPos, pc, pending, keywordDataResults,
                   niches, scoredNiches, filteredNiches, result, client, queries,
                   save, txn, store>>

\* a second call of calculateTrendingScore with the same name, no trends provider
\* being configured
CallTrendingScoreAgain ==
    /\ pc = "called"
    /\ scorer.op = "calculateTrendingScore"
    /\ "again" \notin DOMAIN scorer
    /\ ~env.GOOGLE_TRENDS_API_KEY
    /\ \E out \in {calculateTrendingScore(scorer.nicheName, NoResponse, randomPos)} :
          /\ scorer' = Again(scorer, out.score)
          /\ randomPos' = randomPos + out.draws
    /\ calls' = [calls EXCEPT !.scorer = @ + 1]
    /\ UNCHANGED <<registry, content, env, request, randomStream, pc, pending, keywordDataResults,
                   niches, scoredNiches, filteredNiches, result, client, queries,
                   save, txn, store>>

NextScorers ==
    \/ CallCompetitionScore
    \/ CallMonetizationPotential
    \/ CallTrendingScore
    \/ CallMonetizationPotentialAgain
    \/ CallTrendingScoreAgain

SpecScorers == InitScorers /\ [][NextScorers]_vars

----------------------------------------------------------------------------
(* analyzeNiche with the callbacks of niches.map completing one at a time *)

\* the longest candidate list whose callbacks are followed one by one
MaxConcurrent == 2

\* answers of the backlink and of the trends provider to one candidate's calls
CandidateBacklinks ==
    {[kind |-> "throw"],
     [kind |-> "pages", pages |-> <<Page("example.com", 45, 30000, 5000)>>]}

CandidateTrends ==
    {[kind |-> "throw"], [kind |-> "timeline", values |-> <<60, 65, 70, 75, 80>>]}

\* every provider configured, nothing saved
InitOrder ==
    /\ Idle
    /\ pc = "start"
    /\ env = [KEYWORD_PLANNER_API_KEY |-> TRUE, AHREFS_API_KEY |-> TRUE,
              GOOGLE_TRENDS_API_KEY |-> TRUE, SAVE_ANALYSIS_RESULTS |-> FALSE]
    /\ request \in PlainRequests \cup LimitedRequests
    /\ randomStream = <<999>>
    /\ store = EmptyStore
    /\ txn = store

\* the callback of niches.map for candidate i completes, in any order among the
\* candidates: Promise.all keeps its value at position i
ScoreNiche(i) ==
    /\ pc = "score"
    /\ Len(niches) <= MaxConcurrent
    /\ i \in 1..Len(niches)
    /\ IF scoredNiches = <<>> THEN TRUE ELSE "pending" \in DOMAIN scoredNiches[i]
    /\ \E backlink \in CandidateBacklinks, trend \in CandidateTrends :
          LET issued == scoredNiches = <<>>
              scored == ScoreOne(niches[i], backlink, trend, randomPos)
          IN  /\ scoredNiches' =
                    Settle(IF issued THEN [j \in 1..Len(niches) |-> [pending |-> TRUE]]
                           ELSE scoredNiches, i, scored.niche)
              /\ randomPos' = randomPos + scored.draws
              /\ calls' = [calls EXCEPT
                    !.scorer = @ + 3,
                    !.backlinks = [IF issued THEN [j \in 1..Len(niches) |-> NoResponse]
                                   ELSE @ EXCEPT ![i] = backlink],
                    !.trends = [IF issued THEN [j \in 1..Len(niches) |-> NoResponse]
                                ELSE @ EXCEPT ![i] = trend],
                    !.scored = Append(@, i)]
    /\ UNCHANGED <<registry, content, env, request, randomStream, pc, pending, keywordDataResults, niches,
                   filteredNiches, result, client, queries, save, txn, store, scorer>>

\* every callback has completed: the candidates are filtered, sorted and cut to the
\* limit, and the response is returned
RankNiches ==
    /\ pc = "score"
    /\ Len(niches) <= MaxConcurrent
    /\ Len(calls.scored) = Len(niches)
    /\ ~env.SAVE_ANALYSIS_RESULTS
    /\ filteredNiches' = FilterSortLimit(scoredNiches, LimitOf(request))
    /\ result' = Response(filteredNiches')
    /\ pc' = "done"
    /\ UNCHANGED <<registry, content, env, request, randomStream, randomPos, pending, keywordDataResults,
                   niches, scoredNiches, calls, client, queries, save, txn, store, scorer>>

NextOrder ==
    \/ Validate
    \/ \E i \in 1..MaxKeywords : FetchKeywordData(i)
    \/ GenerateNiches
    \/ \E i \in 1..MaxConcurrent : ScoreNiche(i)
    \/ RankNiches
    \/ (Len(niches) > MaxConcurrent /\ ScoreNiches)

SpecOrder == InitOrder /\ [][NextOrder]_vars

----------------------------------------------------------------------------
(* The domain registry module: scoreDomain, called directly *)

\* domain.split('.'): the segments of the string between its dots
RECURSIVE SplitDots(_)
SplitDots(s) ==
    IF \A i \in 1..Len(s) : s[i] # 46 THEN <<s>>
    ELSE LET d == CHOOSE i \in 1..Len(s) : s[i] = 46 /\ \A j \in 1..(i - 1) : s[j] # 46
         IN  <<SubSeq(s, 1, d - 1)>> \o SplitDots(SubSeq(s, d + 1, Len(s)))

\* the length score with a name of more than 20 characters rewarded
LengthScore_LongRewarded(length) ==
    IF length <= 5 THEN 2000
    ELSE IF length <= 10 THEN 1500
    ELSE IF length <= 15 THEN 1000
    ELSE IF length > 20 THEN 1000
    ELSE 0

\* the length score, in thousandths
LengthScore(length) ==
    IF length <= 5 THEN 2000
    ELSE IF length <= 10 THEN 1500
    ELSE IF length <= 15 THEN 1000
    ELSE IF length > 20 THEN -1000
    ELSE 0

\* the TLD score: parts is domain.split('.'), and parts[1] is undefined when the string
\* has no dot ('com', 'org', 'net', 'io', 'co')
TldScore(parts) ==
    IF Len(parts) < 2 THEN 0
    ELSE IF parts[2] = <<99, 111, 109>> THEN 2000
    ELSE IF parts[2] \in {<<111, 114, 103>>, <<110, 101, 116>>} THEN 1000
    ELSE IF parts[2] \in {<<105, 111>>, <<99, 111>>} THEN 500
    ELSE 0

\* the characters [bcdfghjklmnpqrstvwxyz] and [aeiou]
vowelCodes == {97, 101, 105, 111, 117}
consonantCodes == (97..122) \ vowelCodes

\* the pronounceability score: ratio = consonants / (vowels || 1), compared with 1 and
\* with 2.5 (both comparisons are exact for counts of this size)
RatioScore(domainName) ==
    LET consonants == Cardinality({i \in 1..Len(domainName) : domainName[i] \in consonantCodes})
        vowels == Cardinality({i \in 1..Len(domainName) : domainName[i] \in vowelCodes})
        divisor == IF vowels = 0 THEN 1 ELSE vowels
    IN  IF consonants >= divisor /\ 2 * consonants <= 5 * divisor THEN 1000
        ELSE IF 2 * consonants > 5 * divisor THEN -500
        ELSE 0

\* scoreDomain(domain), in thousandths: the hyphen is '-', \d is [0-9], and
\* ([a-z])\1 is a lowercase letter followed by itself
scoreDomain(domain) ==
    LET parts == SplitDots(domain)
        domainName == parts[1]
        hyphen == IF \E i \in 1..Len(domainName) : domainName[i] = 45 THEN -500 ELSE 0
        digit == IF \E i \in 1..Len(domainName) : domainName[i] \in 48..57 THEN -500 ELSE 0
        double ==
            IF \E i \in 1..(Len(domainName) - 1) :
                  domainName[i] \in 97..122 /\ domainName[i + 1] = domainName[i]
            THEN -300 ELSE 0
        score == 5000 + LengthScore(Len(domainName)) + TldScore(parts) + hyphen + digit
                     + double + RatioScore(domainName)
    IN  MathMax(Num(0), MathMin(Num(10000), Num(score)))

\* 'short.com' and 'averylongdomainnamewithoutbreaks.com'
strShortCom == <<115, 104, 111, 114, 116, 46, 99, 111, 109>>
strLongCom ==
    <<97, 118, 101, 114, 121, 108, 111, 110, 103, 100, 111, 109, 97, 105, 110, 110, 97,
      109, 101, 119, 105, 116, 104, 111, 117, 116, 98, 114, 101, 97, 107, 115, 46, 99, 111,
      109>>

\* every name of up to MaxNameLen characters over 'a', 'b', '-', '7', and the names
\* '', 'tiger', 'short', 'domain', 'Domain', 'domain123', 'cleandomain', 'clean-
\* domain', 'verylongdomainname', 'averylongdomainnamewithoutbreaks', 'very-long-
\* domain-with-hyphens', 'bbcc-dd7-ffgghhjjkkllmm'
MaxNameLen == 3
DomainNames ==
    UNION {[1..n -> {97, 98, 45, 55}] : n \in 0..MaxNameLen} \cup
    {<<>>,
     <<116, 105, 103, 101, 114>>,
     <<115, 104, 111, 114, 116>>,
     <<100, 111, 109, 97, 105, 110>>,
     <<68, 111, 109, 97, 105, 110>>,
     <<100, 111, 109, 97, 105, 110, 49, 50, 51>>,
     <<99, 108, 101, 97, 110, 100, 111, 109, 97, 105, 110>>,
     <<99, 108, 101, 97, 110, 45, 100, 111, 109, 97, 105, 110>>,
     <<118, 101, 114, 121, 108, 111, 110, 103, 100, 111, 109, 97, 105, 110, 110, 97, 109, 101>>,
     <<97, 118, 101, 114, 121, 108, 111, 110, 103, 100, 111, 109, 97, 105, 110, 110, 97, 109, 101, 119, 105, 116, 104, 111, 117, 116, 98, 114, 101, 97, 107, 115>>,
     <<118, 101, 114, 121, 45, 108, 111, 110, 103, 45, 100, 111, 109, 97, 105, 110, 45, 119, 105, 116, 104, 45, 104, 121, 112, 104, 101, 110, 115>>,
     <<98, 98, 99, 99, 45, 100, 100, 55, 45, 102, 102, 103, 103, 104, 104, 106, 106, 107, 107, 108, 108, 109, 109>>}

\* what follows the name: nothing, '.', '.com', '.org', '.net', '.io', '.co', '.xyz',
\* '.co.uk'
DomainSuffixes ==
    {<<>>,
     <<46>>,
     <<46, 99, 111, 109>>,
     <<46, 111, 114, 103>>,
     <<46, 110, 101, 116>>,
     <<46, 105, 111>>,
     <<46, 99, 111>>,
     <<46, 120, 121, 122>>,
     <<46, 99, 111, 46, 117, 107>>}

DomainInputs == {name \o suffix : name \in DomainNames, suffix \in DomainSuffixes}

InitDomain ==
    /\ Idle
    /\ pc = "domain"
    /\ env \in {e \in Environments :
                    /\ ~e.KEYWORD_PLANNER_API_KEY /\ ~e.AHREFS_API_KEY
                    /\ ~e.GOOGLE_TRENDS_API_KEY /\ ~e.SAVE_ANALYSIS_RESULTS}
    /\ request = [limit |-> 5]
    /\ randomStream \in RandomStreams
    /\ store = EmptyStore
    /\ txn = store

\* one call of scoreDomain
CallScoreDomain ==
    /\ pc = "domain"
    /\ \E domain \in DomainInputs :
          scorer' = [op |-> "scoreDomain", domain |-> domain, score |-> scoreDomain(domain)]
    /\ pc' = "called"
    /\ calls' = [calls EXCEPT !.scorer = @ + 1]
    /\ UNCHANGED <<registry, content, env, request, randomStream, randomPos, pending, keywordDataResults,
                   niches, scoredNiches, filteredNiches, result, client, queries,
                   save, txn, store>>

\* a second call of scoreDomain, with the same string or with the long domain
CallScoreDomainAgain ==
    /\ pc = "called"
    /\ scorer.op = "scoreDomain"
    /\ "again" \notin DOMAIN scorer
    /\ \E other \in {scorer.domain, strLongCom} :
          scorer' = [op |-> "scoreDomain", domain |-> scorer.domain,
                     score |-> scorer.score, other |-> other, again |-> scoreDomain(other)]
    /\ calls' = [calls EXCEPT !.scorer = @ + 1]
    /\ UNCHANGED <<registry, content, env, request, randomStream, randomPos, pc, pending, keywordDataResults,
                   niches, scoredNiches, filteredNiches, result, client, queries,
                   save, txn, store>>

NextDomain ==
    \/ CallScoreDomain
    \/ CallScoreDomainAgain

SpecDomain == InitDomain /\ [][NextDomain]_vars

----------------------------------------------------------------------------
(* The domain registry module: generateDomainOptions *)

\* String.prototype.toLowerCase, for the ASCII letters
ToLowerCase(s) == [i \in 1..Len(s) |-> IF s[i] \in 65..90 THEN s[i] + 32 ELSE s[i]]

\* String.prototype.trim, for the whitespace characters tab, line feed, carriage
\* return and space
RECURSIVE TrimStart(_)
TrimStart(s) == IF s # <<>> /\ Head(s) \in {9, 10, 13, 32} THEN TrimStart(Tail(s)) ELSE s
Trim(s) == Reverse(TrimStart(Reverse(TrimStart(s))))

\* keyword.toLowerCase().replace(/[^\w\s-]/g, '').trim(): of the lowercased string the
\* letters, the digits, '_', the whitespace and '-' are kept
CleanKeyword(keyword) ==
    LET Kept(c) == c \in (97..122) \cup (65..90) \cup (48..57) \cup {95, 45, 9, 10, 13, 32}
    IN  Trim(SelectSeq(ToLowerCase(keyword), Kept))

\* the decimal digits of a natural number, as a string
RECURSIVE DigitsOf(_)
DigitsOf(n) == IF n < 10 THEN <<48 + n>> ELSE DigitsOf(n \div 10) \o <<48 + (n % 10)>>

\* the concatenation of a list of lists
RECURSIVE Flatten(_)
Flatten(lists) == IF lists = <<>> THEN <<>> ELSE Head(lists) \o Flatten(Tail(lists))

\* [...new Set(list)]: the first occurrence of each element, in order
Unique(list) ==
    LET First(i) == \A j \in 1..(i - 1) : list[j] # list[i]
        kept == {i \in 1..Len(list) : First(i)}
        Nth(n) == CHOOSE i \in kept : Cardinality({j \in kept : j < i}) = n - 1
    IN  [n \in 1..Cardinality(kept) |-> list[Nth(n)]]

\* 'and'; the prefixes 'best', 'top', 'my', 'the'; the suffixes 'guide', 'hub', 'pro',
\* 'expert', 'hq'
strAnd == <<97, 110, 100>>
domainPrefixes == << <<98, 101, 115, 116>>,
                  <<116, 111, 112>>,
                  <<109, 121>>,
                  <<116, 104, 101>> >>
domainSuffixes ==
    << <<103, 117, 105, 100, 101>>,
       <<104, 117, 98>>,
       <<112, 114, 111>>,
       <<101, 120, 112, 101, 114, 116>>,
       <<104, 113>> >>

\* the default of preferences.preferredTLDs: '.com', '.org', '.net', '.io'
defaultTLDs == << <<46, 99, 111, 109>>,
               <<46, 111, 114, 103>>,
               <<46, 110, 101, 116>>,
               <<46, 105, 111>> >>

maxDomainLength == 63

\* the preferences of generateDomainOptions, with their defaults
WithDefaults(preferences) ==
    [useHyphens |-> IF "useHyphens" \in DOMAIN preferences
                    THEN preferences.useHyphens ELSE FALSE,
     preferredTLDs |-> IF "preferredTLDs" \in DOMAIN preferences
                       THEN preferences.preferredTLDs ELSE defaultTLDs,
     shortDomains |-> IF "shortDomains" \in DOMAIN preferences
                      THEN preferences.shortDomains ELSE FALSE,
     includeNumbers |-> IF "includeNumbers" \in DOMAIN preferences
                        THEN preferences.includeNumbers ELSE FALSE]

\* the names (i, j) of the two nested loops give, in order: the concatenation, the
\* hyphenated form, the 'and' form, and the two numbered forms, whose numbers are
\* Math.floor(Math.random() * 100) and Math.floor(Math.random() * 10), k calls of
\* Math.random() having been made before
CombinationsOf(a, b, prefs, k) ==
    <<a \o b>>
    \o (IF prefs.useHyphens THEN <<a \o <<45>> \o b>> ELSE <<>>)
    \o <<a \o strAnd \o b>>
    \o (IF prefs.includeNumbers
        THEN <<a \o DigitsOf((RandomAt(k) * 100) \div 1000),
               a \o b \o DigitsOf((RandomAt(k + 1) * 10) \div 1000)>>
        ELSE <<>>)

\* the names that fit a DNS label, each with every preferred TLD
WithTLDs(names, tlds) ==
    Flatten([n \in 1..Len(names) |->
                IF Len(names[n]) <= maxDomainLength
                THEN [t \in 1..Len(tlds) |-> names[n] \o tlds[t]]
                ELSE <<>>])

\* generateDomainOptions(keywordsList, preferences), k calls of Math.random() having
\* been made before. With no keyword left after cleaning mainKeyword is undefined:
\* reading mainKeyword.length throws a TypeError in the first loop, unless there is no
\* preferred TLD, and then the prefixed and suffixed names are built from 'undefined'
\* and given no TLD.
generateDomainOptions(keywordsList, preferences, k) ==
    LET prefs == WithDefaults(preferences)
        NonEmpty(keyword) == Len(keyword) > 0
        cleanedKeywords ==
            SelectSeq([i \in 1..Len(keywordsList) |-> CleanKeyword(keywordsList[i])],
                      NonEmpty)
        n == Len(cleanedKeywords)
        MinOf(a, b) == IF a < b THEN a ELSE b
        \* the pairs i < j with i < min(n, 3) and j < min(n, 4), counted from 0, in loop
        \* order, without those of two equal keywords
        pairs ==
            SelectSeq(Flatten([i \in 1..MinOf(n, 3) |->
                                  [d \in 1..(MinOf(n, 4) - i) |-> <<i, i + d>>]]),
                      LAMBDA p : cleanedKeywords[p[1]] # cleanedKeywords[p[2]])
        draws == IF prefs.includeNumbers THEN 2 * Len(pairs) ELSE 0
    IN  IF n = 0 /\ prefs.preferredTLDs # <<>>
        THEN [threw |-> TRUE, options |-> <<>>, draws |-> 0]
        ELSE IF n = 0
        THEN [threw |-> FALSE, options |-> <<>>, draws |-> 0]
        ELSE
        LET mainKeyword == cleanedKeywords[1]
            combinations ==
                Flatten([p \in 1..Len(pairs) |->
                            CombinationsOf(cleanedKeywords[pairs[p][1]],
                                           cleanedKeywords[pairs[p][2]], prefs,
                                           k + (IF prefs.includeNumbers
                                                THEN 2 * (p - 1) ELSE 0))])
            names ==
                <<mainKeyword>> \o combinations
                \o [i \in 1..Len(domainPrefixes) |-> domainPrefixes[i] \o mainKeyword]
                \o [i \in 1..Len(domainSuffixes) |-> mainKeyword \o domainSuffixes[i]]
            domainOptions == WithTLDs(names, prefs.preferredTLDs)
            Short(domain) == Len(SplitDots(domain)[1]) <= 15
        IN  [threw |-> FALSE,
             options |-> IF prefs.shortDomains
                         THEN Slice(SelectSeq(domainOptions, Short), 20)
                         ELSE Slice(Unique(domainOptions), 25),
             draws |-> draws]

----------------------------------------------------------------------------
(* The domain registry module: generateDomainOptions called directly *)

\* keywords a caller passes: 'hydroponics', 'gardening', 'hydro$ponics!',
\* 'indoor gardening*', 'Grow_Kit 2', '!!!', the empty string, and keywords of 60 and of
\* 64 letters
kwGardening == <<103, 97, 114, 100, 101, 110, 105, 110, 103>>
kwLong60 == [i \in 1..60 |-> 97 + (i % 3)]
kwLong64 == [i \in 1..64 |-> 97 + (i % 3)]
DomainKeywordPool ==
    {kwHydroponics, kwGardening,
     <<104, 121, 100, 114, 111, 36, 112, 111, 110, 105, 99, 115, 33>>,
     <<105, 110, 100, 111, 111, 114, 32, 103, 97, 114, 100, 101, 110, 105, 110, 103, 42>>,
     <<71, 114, 111, 119, 95, 75, 105, 116, 32, 50>>,
     <<33, 33, 33>>, <<>>, kwLong60, kwLong64}

\* the longest keyword list of a direct call
MaxListLen == 2
DomainKeywordLists == UNION {[1..n -> DomainKeywordPool] : n \in 0..MaxListLen}

\* '.io', '.net' and '.com', '.io'
tldsIoNet == << <<46, 105, 111>>,
       <<46, 110, 101, 116>> >>
tldsComIo == << <<46, 99, 111, 109>>,
       <<46, 105, 111>> >>

\* preferences objects: none of the properties, or the three flags with or without a
\* list of preferred TLDs
DomainPreferences ==
    {[x \in {} |-> TRUE]}
    \cup [useHyphens : BOOLEAN, shortDomains : BOOLEAN, includeNumbers : BOOLEAN]
    \cup [useHyphens : BOOLEAN, shortDomains : BOOLEAN, includeNumbers : BOOLEAN,
          preferredTLDs : {tldsIoNet, <<>>}]

InitOptions ==
    /\ Idle
    /\ pc = "options"
    /\ env \in {e \in Environments :
                    /\ ~e.KEYWORD_PLANNER_API_KEY /\ ~e.AHREFS_API_KEY
                    /\ ~e.GOOGLE_TRENDS_API_KEY /\ ~e.SAVE_ANALYSIS_RESULTS}
    /\ request = [limit |-> 5]
    /\ randomStream \in {<<0>>, <<999>>, <<0, 999>>}
    /\ store = EmptyStore
    /\ txn = store

\* one call of generateDomainOptions: it returns its list, or throws
CallGenerateDomainOptions ==
    /\ pc = "options"
    /\ \E keywordsList \in DomainKeywordLists, preferences \in DomainPreferences :
          \E generated \in {generateDomainOptions(keywordsList, preferences, randomPos)} :
             /\ registry' = [op |-> "generateDomainOptions",
                             keywordsList |-> keywordsList,
                             preferences |-> preferences,
                             threw |-> generated.threw,
                             options |-> generated.options]
             /\ randomPos' = randomPos + generated.draws
    /\ pc' = "called"
    /\ UNCHANGED <<env, randomStream, analysisVars, content>>

NextOptions == CallGenerateDomainOptions

SpecOptions == InitOptions /\ [][NextOptions]_vars

----------------------------------------------------------------------------
(* The domain registry module: registerDomain *)

\* the objects registerDomain returns: from its catch block, and when no option is
\* available
RegistrationError == [success |-> FALSE, error |-> "Domain registration error", details |-> "stack"]
NoneAvailable == [success |-> FALSE, error |-> "No available domains found"]

\* what checkDomainAvailability returns for an answer of the registrar client: true
\* for isAvailable: true, false for any other answer and for an error
IsAvailable(answer) == answer = "available"

\* the entry of availabilityChecks for a domain whose check has returned
Checked(domain, answer) ==
    [domain |-> domain, settled |-> TRUE, answer |-> answer,
     available |-> IsAvailable(answer),
     score |-> IF IsAvailable(answer) THEN scoreDomain(domain) ELSE Num(0)]

\* the first of the available domains sorted by increasing score
BestAvailable_Ascending(availabilityChecks) ==
    LET availableDomains == SelectSeq(availabilityChecks, LAMBDA d : d.available)
        first == CHOOSE i \in 1..Len(availableDomains) :
                    /\ \A j \in 1..Len(availableDomains) :
                          availableDomains[i].score.v <= availableDomains[j].score.v
                    /\ \A j \in 1..(i - 1) :
                          availableDomains[i].score.v < availableDomains[j].score.v
    IN  availableDomains[first]

\* availabilityChecks.filter(d => d.available).sort((a, b) => b.score - a.score)[0]:
\* the scores are finite numbers, so the sort is a stable sort by decreasing score and
\* its first element is the first domain of the greatest score
BestAvailable(availabilityChecks) ==
    LET availableDomains == SelectSeq(availabilityChecks, LAMBDA d : d.available)
        first == CHOOSE i \in 1..Len(availableDomains) :
                    /\ \A j \in 1..Len(availableDomains) :
                          availableDomains[i].score.v >= availableDomains[j].score.v
                    /\ \A j \in 1..(i - 1) :
                          availableDomains[i].score.v > availableDomains[j].score.v
    IN  availableDomains[first]

\* niche names: 'hydroponickit' and 'hydroponicsnow', of 13 and 14 letters, 'indoor
\* hydroponics', and one that cleaning leaves nothing of
kwHydroponicKit == <<104, 121, 100, 114, 111, 112, 111, 110, 105, 99, 107, 105, 116>>
kwHydroponicsNow == <<104, 121, 100, 114, 111, 112, 111, 110, 105, 99, 115, 110, 111, 119>>
kwIndoorHydroponics ==
    <<105, 110, 100, 111, 111, 114, 32, 104, 121, 100, 114, 111, 112, 111, 110, 105, 99, 115>>
NicheDataInputs ==
    {[niche_name |-> name, related_keywords |-> related] :
        name \in {kwHydroponicKit, kwHydroponicsNow, kwIndoorHydroponics, <<33, 33, 33>>},
        related \in {<<>>, <<kwGardening>>}}
    \cup {[niche_name |-> kwHydroponicKit]}

RegistrationPreferences ==
    {[x \in {} |-> TRUE], [shortDomains |-> TRUE]}
    \cup [shortDomains : {TRUE}, preferredTLDs : {tldsIoNet, tldsComIo, <<<<46, 99, 111, 109>>>>, <<>>}]

\* the most options whose availability one call checks
MaxOptions == 4

\* the keywords registerDomain passes on
KeywordsListOf(nicheData) == <<nicheData.niche_name>> \o Slice(nicheData.related_keywords, 5)

InitRegister ==
    /\ Idle
    /\ pc = "register"
    /\ env \in {e \in Environments :
                    /\ ~e.KEYWORD_PLANNER_API_KEY /\ ~e.AHREFS_API_KEY
                    /\ ~e.GOOGLE_TRENDS_API_KEY /\ ~e.SAVE_ANALYSIS_RESULTS}
    /\ request = [limit |-> 5]
    /\ randomStream = <<999>>
    /\ store = EmptyStore
    /\ txn = store

\* registerDomain up to its first await: the options are generated and the registrar
\* client is asked about every one of them
StartRegisterDomain ==
    /\ pc = "register"
    /\ \E nicheData \in NicheDataInputs, preferences \in RegistrationPreferences :
          LET call == [op |-> "registerDomain", nicheData |-> nicheData,
                       preferences |-> preferences, availabilityChecks |-> <<>>,
                       registerCalls |-> <<>>, registered |-> {}, zones |-> <<>>]
              With(f, v) == [x \in DOMAIN call \cup {f} |-> IF x = f THEN v ELSE call[x]]
          IN  IF "related_keywords" \notin DOMAIN nicheData
              THEN registry' = With("result", RegistrationError) /\ pc' = "done"
              ELSE \E generated \in {generateDomainOptions(KeywordsListOf(nicheData),
                                                           preferences, randomPos)} :
                      /\ Len(generated.options) <= MaxOptions
                      /\ IF generated.threw
                         THEN registry' = With("result", RegistrationError) /\ pc' = "done"
                         ELSE /\ registry' =
                                   With("availabilityChecks",
                                        [i \in 1..Len(generated.options) |->
                                            [domain |-> generated.options[i],
                                             settled |-> FALSE, available |-> FALSE,
                                             score |-> Num(0)]])
                              /\ pc' = "checking"
    /\ UNCHANGED <<env, randomStream, randomPos, analysisVars, content>>

\* the registrar client answers one availability check, or fails
CheckDomainAvailability(i) ==
    /\ pc = "checking"
    /\ i \in 1..Len(registry.availabilityChecks)
    /\ ~registry.availabilityChecks[i].settled
    /\ \E answer \in {"available", "taken", "throw"} :
          registry' = [registry EXCEPT
                          !.availabilityChecks[i] =
                              Checked(registry.availabilityChecks[i].domain, answer)]
    /\ UNCHANGED <<env, randomStream, randomPos, pc, analysisVars, content>>

\* Promise.all has resolved: every check has returned
AllChecked(availabilityChecks) ==
    \A i \in 1..Len(availabilityChecks) : availabilityChecks[i].settled

\* the best available domain is chosen, and the registrar is asked to register it
ChooseDomain ==
    /\ pc = "checking"
    /\ AllChecked(registry.availabilityChecks)
    /\ IF \A i \in 1..Len(registry.availabilityChecks) :
             ~registry.availabilityChecks[i].available
       THEN /\ registry' = [x \in DOMAIN registry \cup {"result"} |->
                               IF x = "result" THEN NoneAvailable ELSE registry[x]]
            /\ pc' = "done"
       ELSE /\ registry' =
                 [registry EXCEPT
                     !.registerCalls =
                         Append(@, [domain |-> BestAvailable(registry.availabilityChecks).domain,
                                    score |-> BestAvailable(registry.availabilityChecks).score,
                                    unsettled |->
                                        Cardinality({i \in 1..Len(registry.availabilityChecks) :
                                                        ~registry.availabilityChecks[i].settled})])]
            /\ pc' = "registering"
    /\ UNCHANGED <<env, randomStream, randomPos, analysisVars, content>>

\* the registrar answers: the domain is registered (with or without a cost), it is
\* not, or the call fails
RegistrarAnswers ==
    /\ pc = "registering"
    /\ LET call == registry.registerCalls[Len(registry.registerCalls)]
           With(r, f, v) == [x \in DOMAIN r \cup {f} |-> IF x = f THEN v ELSE r[x]]
       IN  \E answer \in {"registered", "registered at no cost", "refused", "throw"} :
              IF answer \in {"registered", "registered at no cost"}
              THEN /\ registry' = [registry EXCEPT !.registered = @ \cup {call.domain},
                                                   !.zones = Append(@, call.domain),
                                                   !.registerCalls[Len(registry.registerCalls)] =
                                                       With(call, "answer", answer)]
                   /\ pc' = "zone"
              ELSE /\ registry' =
                        With([registry EXCEPT !.registerCalls[Len(registry.registerCalls)] =
                                                  With(call, "answer", answer)],
                             "result",
                             IF answer = "refused"
                             THEN [success |-> FALSE,
                                   error |-> "Domain registration failed",
                                   attempted_domain |-> call.domain]
                             ELSE RegistrationError)
                   /\ pc' = "done"
    /\ UNCHANGED <<env, randomStream, randomPos, analysisVars, content>>

\* cloudflareClient.addZone returns, or fails
ZoneAnswers ==
    /\ pc = "zone"
    /\ LET call == registry.registerCalls[Len(registry.registerCalls)]
       IN  \E ok \in BOOLEAN :
              registry' =
                  [x \in DOMAIN registry \cup {"result"} |->
                      IF x # "result" THEN registry[x]
                      ELSE IF ok
                      THEN [success |-> TRUE, domain |-> call.domain,
                            domainScore |-> call.score,
                            registrationCost |->
                                IF call.answer = "registered" THEN "cost" ELSE "12.99"]
                      ELSE RegistrationError]
    /\ pc' = "done"
    /\ UNCHANGED <<env, randomStream, randomPos, analysisVars, content>>

NextRegister ==
    \/ StartRegisterDomain
    \/ \E i \in 1..MaxOptions : CheckDomainAvailability(i)
    \/ ChooseDomain
    \/ RegistrarAnswers
    \/ ZoneAnswers

SpecRegister == InitRegister /\ [][NextRegister]_vars

----------------------------------------------------------------------------
(* The content generator: generateContent *)

\* content briefs: topic and wordCount always, sections, secondaryKeywords and tone
\* given or left out
ContentBriefs ==
    {[f \in fields |-> full[f]] :
        fields \in {{"topic", "wordCount"} \cup optional :
                        optional \in SUBSET {"sections", "secondaryKeywords", "tone"}},
        full \in [topic : {"Getting Started with Hydroponics"},
                  wordCount : {1500, 6000},
                  sections : {<<"Introduction", "Conclusion">>},
                  secondaryKeywords : {<<>>, <<"indoor growing", "hydroponic starter kit">>},
                  tone : {"", "informative"}]}

\* the request sent to the completions API
CompletionRequest(model, contentBrief, limit) ==
    [model |-> model,
     max_tokens |-> IF (contentBrief.wordCount * 3) \div 2 < limit
                    THEN (contentBrief.wordCount * 3) \div 2 ELSE limit]

\* the promise of a call: resolved with a value, or rejected with an error
Resolved(call, value) ==
    [x \in DOMAIN call \cup {"outcome", "result"} |->
        IF x = "outcome" THEN "resolved" ELSE IF x = "result" THEN value ELSE call[x]]
Rejected(call, error) ==
    [x \in DOMAIN call \cup {"outcome", "error"} |->
        IF x = "outcome" THEN "rejected" ELSE IF x = "error" THEN error ELSE call[x]]

\* the prompt is built before the try block: a brief without sections, and a brief
\* with secondary keywords or a tone (an addition to the constant userPrompt), throw
PromptThrows(contentBrief) ==
    IF "sections" \notin DOMAIN contentBrief THEN TRUE
    ELSE IF "secondaryKeywords" \in DOMAIN contentBrief /\ contentBrief.secondaryKeywords # <<>>
    THEN TRUE
    ELSE "tone" \in DOMAIN contentBrief /\ contentBrief.tone # ""

InitContent ==
    /\ Idle
    /\ pc = "content"
    /\ env \in {e \in Environments :
                    /\ ~e.KEYWORD_PLANNER_API_KEY /\ ~e.AHREFS_API_KEY
                    /\ ~e.GOOGLE_TRENDS_API_KEY /\ ~e.SAVE_ANALYSIS_RESULTS}
    /\ request = [limit |-> 5]
    /\ randomStream = <<999>>
    /\ store = EmptyStore
    /\ txn = store

\* generateContent up to its first await
CallGenerateContent ==
    /\ pc = "content"
    /\ \E contentBrief \in ContentBriefs :
          LET call == [op |-> "generateContent", contentBrief |-> contentBrief,
                       requests |-> <<>>, answers |-> <<>>, queued |-> <<>>]
          IN  IF PromptThrows(contentBrief)
              THEN content' = Rejected(call, "TypeError") /\ pc' = "done"
              ELSE /\ content' = [call EXCEPT !.requests =
                                      <<CompletionRequest("gpt-4", contentBrief, 8000)>>]
                   /\ pc' = "primary"
    /\ UNCHANGED <<registry, env, randomStream, randomPos, analysisVars>>

\* the answer of the primary model, and the catch block up to its next await
PrimaryAnswers ==
    /\ pc = "primary"
    /\ \E answer \in {"completion", "no choices", "429", "400", "400 without error body",
                      "503", "no response", "not sent"} :
          LET answered == [content EXCEPT !.answers = Append(@, answer)]
          IN
          CASE answer = "completion" ->
                  /\ content' = Resolved(answered, [status |-> "success", content |-> "article"])
                  /\ pc' = "done"
            [] answer = "429" ->
                  /\ content' = [answered EXCEPT !.queued =
                                    Append(@, [queue |-> "content-generation",
                                               contentBrief |-> content.contentBrief,
                                               delay |-> 60000, priority |-> "high"])]
                  /\ pc' = "queueing"
            [] answer = "400 without error body" ->
                  /\ content' = Rejected(answered, "TypeError")
                  /\ pc' = "done"
            [] OTHER ->
                  /\ content' = [answered EXCEPT !.requests =
                                    Append(@, CompletionRequest("gpt-3.5-turbo",
                                                                content.contentBrief, 4000))]
                  /\ pc' = "fallback"
    /\ UNCHANGED <<registry, env, randomStream, randomPos, analysisVars>>

\* addToQueue returns, or fails
QueueAnswers ==
    /\ pc = "queueing"
    /\ \E ok \in BOOLEAN :
          content' = IF ok
                     THEN Resolved(content, [status |-> "queued", message |-> "Rate limit reached"])
                     ELSE Rejected(content, "Error")
    /\ pc' = "done"
    /\ UNCHANGED <<registry, env, randomStream, randomPos, analysisVars>>

\* generateFallbackContent: the answer of the fallback model
FallbackAnswers ==
    /\ pc = "fallback"
    /\ \E answer \in {"completion", "no choices", "error"} :
          content' = IF answer = "completion"
                     THEN Resolved(content, [status |-> "success", content |-> "article",
                                             model_used |-> "gpt-3.5-turbo",
                                             is_fallback |-> TRUE])
                     ELSE Resolved(content, [status |-> "failed",
                                             message |-> "Content generation failed",
                                             error |-> answer])
    /\ pc' = "done"
    /\ UNCHANGED <<registry, env, randomStream, randomPos, analysisVars>>

NextContent ==
    \/ CallGenerateContent
    \/ PrimaryAnswers
    \/ QueueAnswers
    \/ FallbackAnswers

SpecContent == InitContent /\ [][NextContent]_vars

----------------------------------------------------------------------------
(* Candidate generation called directly *)

\* 'grow'
strGrow == <<103, 114, 111, 119>>

\* keyword records: volumes on both sides of the least volumes whose 30% and whose
\* 99.9% reach 1000, competition from 0 to 1, related keywords that are too short,
\* equal to the keyword, or neither; and a record of a failed fetch
GenerateRecords ==
    {[success |-> TRUE, keyword |-> keyword,
      search_volume |-> Num(volume * 1000),
      competition |-> Num(competition),
      cpc |-> Num(1500),
      related_keywords |-> related] :
        keyword \in {kwHydroponics, kwTv},
        volume \in {1001, 1002, 3333, 3334},
        competition \in {0, 850, 1000},
        related \in {<<>>, <<kwHydroponics, strGrow, strBuy>>, <<strBuy, strPrice>>}}
    \cup {[success |-> FALSE, keyword |-> kwTv]}

\* lists of one record, and of two of a few records
GenerateLists ==
    {<<data>> : data \in GenerateRecords}
    \cup {<<a, b>> : a, b \in {data \in GenerateRecords :
                                  \/ ~data.success
                                  \/ /\ data.keyword = kwHydroponics
                                     /\ data.search_volume \in {Num(1002000), Num(3334000)}
                                     /\ data.competition = Num(850)
                                     /\ data.related_keywords = <<strBuy, strPrice>>}}

InitGenerate ==
    /\ Idle
    /\ pc = "generate"
    /\ env \in {e \in Environments :
                    /\ ~e.KEYWORD_PLANNER_API_KEY /\ ~e.AHREFS_API_KEY
                    /\ ~e.GOOGLE_TRENDS_API_KEY /\ ~e.SAVE_ANALYSIS_RESULTS}
    /\ request = [limit |-> 5]
    /\ randomStream \in RandomStreams
    /\ store = EmptyStore
    /\ txn = store

\* one call of generateNicheRecommendations: the argument is kept in
\* keywordDataResults and request, the list it returns in niches
CallGenerateNicheRecommendations ==
    /\ pc = "generate"
    /\ \E keywordDataList \in GenerateLists,
          preferences \in {[industry |-> <<>>], [industry |-> <<98, 117, 121>>]} :
          \E generated \in {generateNicheRecommendations(keywordDataList, preferences,
                                                         randomPos)} :
             /\ keywordDataResults' = keywordDataList
             /\ request' = [limit |-> 5, preferences |-> preferences]
             /\ niches' = generated.niches
             /\ randomPos' = generated.k
    /\ pc' = "called"
    /\ UNCHANGED <<registry, content, env, randomStream, pending, scoredNiches,
                   filteredNiches, result, calls, client, queries, save, txn, store,
                   scorer>>

NextGenerate == CallGenerateNicheRecommendations

SpecGenerate == InitGenerate /\ [][NextGenerate]_vars

----------------------------------------------------------------------------
(* Properties of saveAnalysisResults and of analyzeNiche around it *)

ValidRequest ==
    /\ "keywords" \in DOMAIN request
    /\ request.keywords.type = "array"
    /\ request.keywords.items # <<>>

Done == pc = "done"

\* statements the store rejected
FailedQueries == {k \in 1..Len(queries) : ~queries[k].ok}

\* positions of a statement in the log
Positions(sql) == {k \in 1..Len(queries) : queries[k].sql = sql}

PerNiche ==
    {"SELECT", "UPDATE niches", "INSERT niches", "DELETE niche_keywords",
     "INSERT niche_keywords", "DELETE niche_competitors", "INSERT niche_competitors"}

\* a store operation of the save step has failed
SaveFailed == client.connects > client.acquired \/ FailedQueries # {}

RECURSIVE CountChildren(_, _)
CountChildren(list, f) ==
    IF list = <<>> THEN 0 ELSE Len(Head(list)[f]) + CountChildren(Tail(list), f)

\* C1: with persistence enabled, when a store operation of the save step fails,
\* analyzeNiche still returns success: true with the computed recommendations, and
\* a ROLLBACK is issued for a transaction that failed.
C1_PersistenceFailureNotSurfaced ==
    (Done /\ ValidRequest /\ env.SAVE_ANALYSIS_RESULTS /\ SaveFailed)
        => /\ result = Response(filteredNiches)
           /\ (Len(queries) > 0 => Positions("ROLLBACK") # {})

\* C2: saveAnalysisResults is all-or-nothing. Once a statement of a niche has
\* failed, ROLLBACK is issued, COMMIT is never issued, and the committed store
\* keeps the rows it had; COMMIT is issued only after every statement of every
\* niche of the batch has succeeded; the committed store changes only by a COMMIT
\* that succeeds.
C2_AllOrNothing ==
    [][/\ (Done' /\ \E k \in 1..Len(queries') :
                       ~queries'[k].ok /\ queries'[k].sql \in PerNiche)
          => /\ \E r \in 1..Len(queries') : queries'[r].sql = "ROLLBACK"
             /\ \A c \in 1..Len(queries') : queries'[c].sql # "COMMIT"
             /\ store' = store
       /\ (\E k \in 1..Len(queries) : ~queries[k].ok /\ queries[k].sql \in PerNiche)
          => store' = store
       /\ (Len(queries') > Len(queries) /\ queries'[Len(queries')].sql = "COMMIT")
          => /\ \A k \in 1..Len(queries) : queries[k].ok
             /\ Cardinality({k \in 1..Len(queries) : queries[k].sql = "SELECT"})
                  = Len(filteredNiches)
             /\ Cardinality({k \in 1..Len(queries) :
                                queries[k].sql \in {"UPDATE niches", "INSERT niches"}})
                  = Len(filteredNiches)
             /\ Cardinality({k \in 1..Len(queries) :
                                queries[k].sql = "INSERT niche_keywords"})
                  = CountChildren(filteredNiches, "related_keywords")
             /\ Cardinality({k \in 1..Len(queries) :
                                queries[k].sql = "INSERT niche_competitors"})
                  = CountChildren(filteredNiches, "top_competitors")
       /\ store' # store
          => /\ queries' = Append(queries, [sql |-> "COMMIT", ok |-> TRUE])
             /\ store' = txn
      ]_vars

\* a batch of two niches failed at a keyword row of its second niche, after the rows
\* of the first were written in the transaction, and nothing was committed
C2_Witness ==
    /\ Done
    /\ save.i = 2
    /\ Len(queries) > 2
    /\ queries[Len(queries) - 1] = [sql |-> "INSERT niche_keywords", ok |-> FALSE]
    /\ queries[Len(queries)].sql = "ROLLBACK"
    /\ store = EmptyStore

\* C3: a run with persistence enabled that reaches the save step asks for one
\* connection; a connection it got is released exactly once by the time analyzeNiche
\* returns, after a commit, after a rollback and after a ROLLBACK that failed; a
\* run with persistence disabled asks for no connection and issues no statement.
C3_OneConnectionReleasedOnce ==
    /\ client.connects <= 1
    /\ client.acquired <= client.connects
    /\ client.released <= client.acquired
    /\ Len(queries) > 0 => client.acquired = 1
    /\ Done => client.released = client.acquired
    /\ (Done /\ env.SAVE_ANALYSIS_RESULTS /\ "niche_recommendations" \in DOMAIN result)
          => client.acquired = 1 /\ client.released = 1
    /\ (Done /\ Positions("ROLLBACK") # {}) => client.released = 1
    /\ ~env.SAVE_ANALYSIS_RESULTS => client.connects = 0 /\ queries = <<>>

\* the ROLLBACK itself failed, and the connection was still released
C3_Witness ==
    /\ Done
    /\ Len(queries) > 0
    /\ queries[Len(queries)] = [sql |-> "ROLLBACK", ok |-> FALSE]
    /\ client = [connects |-> 1, acquired |-> 1, released |-> 1]

----------------------------------------------------------------------------
(* Properties of analyzeNiche *)

\* C4: for a request whose keywords field is missing, not an array or an empty
\* array, analyzeNiche returns success: false with the error string at once: no
\* keyword fetch, no scorer call and no store operation is performed.
C4_InvalidRequestRejectedAtOnce ==
    (~ValidRequest /\ pc # "start")
        => /\ Done
           /\ result = [success |-> FALSE,
                        error |-> "No keywords provided for niche analysis"]
           /\ calls.fetch = 0
           /\ calls.post = 0
           /\ calls.scorer = 0
           /\ client.connects = 0
           /\ queries = <<>>

\* a request without a keywords field was rejected although persistence and every
\* provider are configured
C4_Witness ==
    /\ Done
    /\ "keywords" \notin DOMAIN request
    /\ env.SAVE_ANALYSIS_RESULTS
    /\ env.KEYWORD_PLANNER_API_KEY
    /\ result.success = FALSE

NoProvider ==
    /\ ~env.KEYWORD_PLANNER_API_KEY
    /\ ~env.AHREFS_API_KEY
    /\ ~env.GOOGLE_TRENDS_API_KEY

\* the five numeric fields of a recommendation are numbers
HasNumericFields(rec) ==
    /\ IsFinite(rec.monthly_search_volume)
    /\ IsFinite(rec.competition_score)
    /\ IsFinite(rec.monetization_potential)
    /\ IsFinite(rec.trending_score)
    /\ IsFinite(rec.estimated_cpc)

\* C5: for a non-empty list of keyword strings, with no provider configured and
\* persistence disabled, analyzeNiche returns success: true with at least one
\* recommendation, each carrying its numeric fields, whatever the random values
\* are (the request leaves the limit and the preferences to their defaults).
C5_MockAnalysisRecommends ==
    (Done /\ ValidRequest /\ NoProvider /\ ~env.SAVE_ANALYSIS_RESULTS
          /\ DOMAIN request = {"keywords"})
        => /\ result.success = TRUE
           /\ Len(result.niche_recommendations) >= 1
           /\ \A i \in 1..Len(result.niche_recommendations) :
                 HasNumericFields(result.niche_recommendations[i])

\* the keyword provider call of keyword i threw, answered without results, or was
\* not made (no key)
KeywordThrew(i) == calls.keywords[i].kind = "throw"
KeywordEmpty(i) ==
    calls.keywords[i].kind = "results" /\ Len(calls.keywords[i].results) = 0

BacklinkAnswer(n) == calls.backlinks[((n - 1) % Len(calls.backlinks)) + 1]
TrendAnswer(n) == calls.trends[((n - 1) % Len(calls.trends)) + 1]

\* C6: a provider call that fails (throws) is never surfaced. With persistence
\* disabled, a run in which some keyword's provider call did not come back empty
\* returns success: true, under every combination of failing keyword, backlink and
\* trends calls; a failed keyword call is replaced by the mock record, a failed
\* backlink call by competition * 80 + 20, a failed trends call by 5.
C6_ProviderFailureNotSurfaced ==
    (Done /\ ValidRequest /\ ~env.SAVE_ANALYSIS_RESULTS)
        => /\ (\E i \in 1..Len(calls.keywords) : ~KeywordEmpty(i))
               => result.success = TRUE
           /\ \A i \in 1..Len(calls.keywords) :
                 KeywordThrew(i)
                    => /\ keywordDataResults[i].success
                       /\ keywordDataResults[i].keyword = KeywordsOf(request).items[i]
                       /\ keywordDataResults[i].related_keywords =
                             Slice(RelatedOf(KeywordsOf(request).items[i]), 10)
                       /\ IsFinite(keywordDataResults[i].search_volume)
           /\ \A n \in 1..Len(scoredNiches) :
                 /\ (env.AHREFS_API_KEY /\ BacklinkAnswer(n).kind = "throw")
                       => scoredNiches[n].competition_score =
                             JsAdd(JsMul(niches[n].competition, 80, 1), Num(20000))
                 /\ (env.GOOGLE_TRENDS_API_KEY /\ TrendAnswer(n).kind = "throw")
                       => scoredNiches[n].trending_score = Num(5000)

\* every provider is configured and every provider call of the run threw
C6_Witness ==
    /\ Done
    /\ env.KEYWORD_PLANNER_API_KEY /\ env.AHREFS_API_KEY /\ env.GOOGLE_TRENDS_API_KEY
    /\ Len(calls.keywords) = 2
    /\ \A i \in 1..Len(calls.keywords) : KeywordThrew(i)
    /\ Len(scoredNiches) > 0
    /\ \A n \in 1..Len(scoredNiches) :
          BacklinkAnswer(n).kind = "throw" /\ TrendAnswer(n).kind = "throw"
    /\ result.success = TRUE
    /\ Len(result.niche_recommendations) > 0

NoValidData ==
    [success |-> FALSE,
     error |-> "Failed to retrieve valid data for any of the provided keywords"]

\* the fetches have all completed
Fetched == pc \notin {"start", "fetch"} \/ (pc = "fetch" /\ pending = {})

\* C7: for a non-empty keyword list, analyzeNiche returns the 'no valid data'
\* failure exactly when every keyword's fetch failed; otherwise every candidate is
\* built from a record that succeeded (its name is that record's keyword or one of
\* its related keywords), and a keyword whose every fetch failed names no candidate.
C7_FailedFetchNotFatal ==
    (ValidRequest /\ Fetched /\ pc # "fetch")
        => LET items == KeywordsOf(request).items
               Failed == {i \in 1..Len(items) : ~keywordDataResults[i].success}
               Valid == (1..Len(items)) \ Failed
           IN  /\ Done => (result = NoValidData <=> Valid = {})
               /\ Valid = {} => Done /\ niches = <<>>
               /\ \A n \in 1..Len(niches) :
                     \E i \in Valid :
                        \/ niches[n].niche_name = keywordDataResults[i].keyword
                        \/ \E r \in 1..Len(keywordDataResults[i].related_keywords) :
                              niches[n].niche_name = keywordDataResults[i].related_keywords[r]
               /\ \A i \in Failed :
                     (\A j \in Valid : items[j] # items[i])
                        => \A n \in 1..Len(niches) : niches[n].niche_name # items[i]

\* of two keywords the first one's fetch failed and the analysis went on with the
\* second: its candidates were generated and the run succeeded
C7_Witness ==
    /\ Done
    /\ Len(keywordDataResults) = 2
    /\ ~keywordDataResults[1].success
    /\ keywordDataResults[2].success
    /\ Len(niches) > 0
    /\ result.success = TRUE

----------------------------------------------------------------------------
(* Properties of the scorers *)

\* lo <= x <= hi for a finite number x
InRange(x, lo, hi) == IsFinite(x) /\ lo <= x.v /\ x.v <= hi

\* a candidate niche as candidate generation builds one: every field present, the
\* raw competition in [0, 1]
IsCandidate(niche) ==
    /\ DOMAIN niche = {"niche_name", "monthly_search_volume", "competition",
                       "estimated_cpc", "related_keywords", "top_competitors"}
    /\ InRange(niche.competition, 0, 1000)

\* C8: calculateCompetitionScore returns a finite number in [0, 100] for every
\* candidate niche on every path (no provider, page lists of any content, an answer
\* without pages, a provider error).
C8_CompetitionScoreInRange ==
    (scorer.op = "calculateCompetitionScore" /\ IsCandidate(scorer.niche))
        => InRange(scorer.score, 0, 100000)

\* C9: evaluateMonetizationPotential returns a number in [0, 10] for every niche
\* object, one that has only a name and one of a volume below 100 included.
C9_MonetizationInRange ==
    scorer.op = "evaluateMonetizationPotential" => InRange(scorer.score, 0, 10000)

\* C10: calculateTrendingScore returns a number in [0, 10] for every niche name on
\* every path (no provider and any jitter, any time series, a provider error).
C10_TrendingScoreInRange ==
    scorer.op = "calculateTrendingScore" => InRange(scorer.score, 0, 10000)

----------------------------------------------------------------------------
(* Properties of the ranking *)

\* the analysis returned recommendations
Recommended == Done /\ result.success /\ "niche_recommendations" \in DOMAIN result

\* candidate a stands before candidate b in the scored candidate list
GeneratedBefore(a, b) ==
    \E p, q \in 1..Len(scoredNiches) :
        p < q /\ scoredNiches[p] = a /\ scoredNiches[q] = b

\* C11: the recommendations returned by analyzeNiche are in non-increasing order of
\* the weighted score 0.4*(10 - competition_score) + 0.4*monetization_potential
\* + 0.2*trending_score, and candidates of equal weighted score keep their
\* generation order.
C11_RankedByWeightedScore ==
    Recommended =>
        /\ Len(result.niche_recommendations) = Len(filteredNiches)
        /\ \A i, j \in 1..Len(filteredNiches) :
              i < j =>
                /\ result.niche_recommendations[i].niche_name = filteredNiches[i].niche_name
                /\ JsGe(WeightedScore(filteredNiches[i]), WeightedScore(filteredNiches[j]))
                /\ WeightedScore(filteredNiches[i]) = WeightedScore(filteredNiches[j])
                      => GeneratedBefore(filteredNiches[i], filteredNiches[j])

\* the Math.random() calls made by the fetches: three by each fallback to mock data
FetchDraws ==
    3 * Cardinality({i \in 1..Len(calls.keywords) :
                        ~env.KEYWORD_PLANNER_API_KEY \/ calls.keywords[i].kind = "throw"})

\* C12: the result of analyzeNiche is the same for every completion order of the
\* keyword fetches and of the per-candidate scorer calls, each call returning the same
\* value: every record and every scored candidate stands at the position of its input
\* and is what its own call returned, and the response is computed from them alone.
C12_CompletionOrderIrrelevant ==
    /\ Fetched =>
          \A i \in 1..Len(keywordDataResults) :
              keywordDataResults[i] =
                  fetchKeywordData(KeywordsOf(request).items[i], calls.keywords[i],
                                   calls.related[i], calls.draws[i]).data
    /\ Recommended =>
          /\ niches = generateNicheRecommendations(ValidKeywordData(keywordDataResults),
                                                   PreferencesOf(request), FetchDraws).niches
          /\ result = Response(FilterSortLimit(
                          ScoreFrom(niches, 1, calls.backlinks, calls.trends, randomPos),
                          LimitOf(request)))

\* two fetches and then two scorer callbacks completed in the reverse of their input
\* order, with different answers, and both candidates were recommended
C12_Witness ==
    /\ Recommended
    /\ calls.fetched = <<2, 1>>
    /\ calls.scored = <<2, 1>>
    /\ calls.backlinks[1] # calls.backlinks[2]
    /\ KeywordsOf(request).items[1] # KeywordsOf(request).items[2]
    /\ Len(result.niche_recommendations) = 2

\* C13: every recommendation returned by analyzeNiche has monetization_potential >= 6;
\* a candidate whose monetization score is below 6 or is not a number is never
\* returned, whatever its other scores are.
C13_OnlyViableRecommended ==
    Recommended =>
        /\ \A i \in 1..Len(result.niche_recommendations) :
              /\ result.niche_recommendations[i].monetization_potential.t = "num"
              /\ result.niche_recommendations[i].monetization_potential.v >= 6000
        /\ \A p \in 1..Len(scoredNiches) :
              (scoredNiches[p].monetization_potential.t # "num"
                  \/ scoredNiches[p].monetization_potential.v < 6000)
                  => \A i \in 1..Len(filteredNiches) : filteredNiches[i] # scoredNiches[p]

\* a candidate whose monetization score is NaN was dropped while another candidate
\* was recommended
C13_Witness ==
    /\ Recommended
    /\ Len(result.niche_recommendations) > 0
    /\ \E p \in 1..Len(scoredNiches) :
          /\ scoredNiches[p].monetization_potential.t = "nan"
          /\ \A i \in 1..Len(result.niche_recommendations) :
                result.niche_recommendations[i].niche_name # scoredNiches[p].niche_name

\* the limit a request asks for
RequestedLimit == IF "limit" \in DOMAIN request THEN request.limit ELSE 5

\* a scored candidate passes the monetization filter
PassesFilter(niche) ==
    niche.monetization_potential.t \in {"num", "pinf"}
        /\ (niche.monetization_potential.t = "num" => niche.monetization_potential.v >= 6000)

Least(a, b) == IF a <= b THEN a ELSE b

\* C14: analyzeNiche returns at most limit recommendations (5 when the limit is
\* omitted): exactly min(limit, number of candidates passing the monetization filter)
\* of them, and they are the highest-ranked ones, in their rank order.
C14_LimitedToHighestRanked ==
    Recommended =>
        LET ranked == SortNiches(SelectSeq(scoredNiches, PassesFilter))
            n == Least(RequestedLimit, Len(ranked))
        IN  /\ Len(result.niche_recommendations) = n
            /\ n <= RequestedLimit
            /\ \A i \in 1..n :
                  result.niche_recommendations[i].niche_name = ranked[i].niche_name

\* more candidates passed the filter than the default limit of 5 lets through
C14_Witness ==
    /\ Recommended
    /\ "limit" \notin DOMAIN request
    /\ Len(SelectSeq(scoredNiches, PassesFilter)) > 5
    /\ Len(result.niche_recommendations) = 5

\* a limit of 0 returned nothing although candidates passed the filter
C14_WitnessZero ==
    /\ Recommended
    /\ RequestedLimit = 0
    /\ Len(SelectSeq(scoredNiches, PassesFilter)) > 0
    /\ Len(result.niche_recommendations) = 0

----------------------------------------------------------------------------
(* Properties of the candidates *)

\* the industry the request prefers; the empty string when it names none
Industry ==
    IF "preferences" \in DOMAIN request /\ "industry" \in DOMAIN request.preferences
    THEN request.preferences.industry ELSE <<>>

\* the name of the candidate, or one of its related keywords, contains the string
Mentions(niche, industry) ==
    \/ Includes(niche.niche_name, industry)
    \/ \E i \in 1..Len(niche.related_keywords) : Includes(niche.related_keywords[i], industry)

\* the candidates have been generated
Generated == pc \notin {"start", "fetch"} /\ (Done => "niche_recommendations" \in DOMAIN result)

\* the candidates the keyword records yield, whatever the request prefers
AllCandidates == NichesOf(ValidKeywordData(keywordDataResults), FetchDraws).niches

\* C15: when preferences.industry is a non-empty string, every recommendation comes
\* from a candidate whose name or one of whose related keywords contains it, the
\* filter being applied to the whole candidate set before scoring; when no industry
\* is given the step removes no candidate.
C15_IndustryFilter ==
    Generated =>
        /\ Industry # <<>> =>
              /\ \A p \in 1..Len(niches) : Mentions(niches[p], Industry)
              /\ \A p \in 1..Len(AllCandidates) :
                    Mentions(AllCandidates[p], Industry)
                        => \E q \in 1..Len(niches) : niches[q] = AllCandidates[p]
              /\ \A i \in 1..Len(filteredNiches) : Mentions(filteredNiches[i], Industry)
              /\ pc # "score" => calls.scorer = 3 * Len(niches)
        /\ Industry = <<>> => niches = AllCandidates

\* with an industry preferred, candidates that do not mention it were removed and
\* recommendations were returned
C15_Witness ==
    /\ Recommended
    /\ Industry # <<>>
    /\ Len(AllCandidates) > Len(niches)
    /\ Len(result.niche_recommendations) > 0

----------------------------------------------------------------------------
(* Properties of what saveAnalysisResults stores *)

\* the batch was saved and committed
Saved == Recommended /\ env.SAVE_ANALYSIS_RESULTS

\* the keywords stored for a niche row, in table order
StoredKeywords(db, nicheId) ==
    LET Of(row) == row.niche_id = nicheId
        rows == SelectSeq(db.niche_keywords, Of)
    IN  [r \in 1..Len(rows) |-> rows[r].keyword]

\* the competitors stored for a niche row, in table order
StoredCompetitors(db, nicheId) ==
    LET Of(row) == row.niche_id = nicheId
        rows == SelectSeq(db.niche_competitors, Of)
    IN  [r \in 1..Len(rows) |->
            [domain |-> rows[r].domain,
             domain_authority |-> rows[r].domain_authority,
             estimated_traffic |-> rows[r].estimated_traffic]]

\* C16: saving is an upsert keyed on the niche name with full replacement of the
\* children: after a successful save the store holds one niche row for the name, its
\* stored keywords are exactly the saved niche's related_keywords and its stored
\* competitors exactly its top_competitors, whatever was stored for the name before.
C16_UpsertReplacesChildren ==
    Saved =>
        \A i \in 1..Len(filteredNiches) :
            (\A j \in (i + 1)..Len(filteredNiches) :
                 filteredNiches[j].niche_name # filteredNiches[i].niche_name)
            => LET rows == RowsNamed(store, filteredNiches[i].niche_name)
               IN  /\ Len(rows) = 1
                   /\ StoredKeywords(store, rows[1].id) = filteredNiches[i].related_keywords
                   /\ StoredCompetitors(store, rows[1].id) = filteredNiches[i].top_competitors

----------------------------------------------------------------------------
(* Properties of repeated scorer calls *)

\* C17: with no trends provider configured, calculateTrendingScore returns the same
\* score on every call with the same niche name.
C17_TrendingScoreRepeatable ==
    (scorer.op = "calculateTrendingScore" /\ "again" \in DOMAIN scorer
        /\ ~env.GOOGLE_TRENDS_API_KEY)
        => scorer.again = scorer.score

----------------------------------------------------------------------------
(* Properties of fetchKeywordData *)

\* C18: with a keyword-provider key configured, when the provider answers with an
\* empty result set, fetchKeywordData falls back to mock data: it returns success: true
\* with the requested keyword and a defined search_volume, as it does when the
\* provider call throws.
C18_EmptyAnswerFallsBack ==
    (Fetched /\ env.KEYWORD_PLANNER_API_KEY) =>
        \A i \in 1..Len(keywordDataResults) :
            (KeywordEmpty(i) \/ KeywordThrew(i)) =>
                /\ keywordDataResults[i].success
                /\ keywordDataResults[i].keyword = KeywordsOf(request).items[i]
                /\ "search_volume" \in DOMAIN keywordDataResults[i]
                /\ keywordDataResults[i].search_volume.t = "num"

----------------------------------------------------------------------------
(* Properties of scoreDomain *)

\* C20: scoreDomain is a deterministic function of the domain string: a second call
\* with the same string returns the same score; its result lies in [0, 10] for every
\* domain string (any name length, any TLD or none, with or without hyphens, digits
\* and repeated letters); and scoreDomain('short.com') is greater than
\* scoreDomain('averylongdomainnamewithoutbreaks.com').
C20_ScoreDomainInRange ==
    scorer.op = "scoreDomain" =>
        /\ InRange(scorer.score, 0, 10000)
        /\ "again" \in DOMAIN scorer =>
              /\ InRange(scorer.again, 0, 10000)
              /\ scorer.other = scorer.domain => scorer.again = scorer.score
              /\ (scorer.domain = strShortCom /\ scorer.other = strLongCom)
                     => JsLt(scorer.again, scorer.score)

\* 'short.com' has been scored, and then the long domain
C20_Witness ==
    /\ scorer.op = "scoreDomain"
    /\ "again" \in DOMAIN scorer
    /\ scorer.domain = strShortCom
    /\ scorer.other = strLongCom

\* the lowest and the highest score the penalties and bonuses can add up to are reached
C20_WitnessExtremes ==
    /\ scorer.op = "scoreDomain"
    /\ scorer.score \in {Num(2200), Num(10000)}

\* the argument of a scorer call with its search volume replaced by 1
WithVolumeOne(niche) == [niche EXCEPT !.monthly_search_volume = Num(1000)]

\* C26: for a candidate whose monthly_search_volume is 0 the scorers take the volume
\* as 1: the competition score and the monetization potential are finite numbers,
\* equal to the scores of the same candidate with volume 1
C26_ZeroVolumeScoredAsOne ==
    (/\ pc = "called"
     /\ scorer.op \in {"calculateCompetitionScore", "evaluateMonetizationPotential"}
     /\ "monthly_search_volume" \in DOMAIN scorer.niche
     /\ scorer.niche.monthly_search_volume = Num(0))
        => /\ scorer.score.t = "num"
           /\ scorer.score =
                  IF scorer.op = "calculateCompetitionScore"
                  THEN calculateCompetitionScore(WithVolumeOne(scorer.niche), scorer.resp).score
                  ELSE evaluateMonetizationPotential(WithVolumeOne(scorer.niche))

\* C28: analyzeNiche never rejects: whatever the input (no options object, keywords
\* that are no strings, failing providers, a failing store) its promise resolves to an
\* object with a boolean success, and an object with success: false has an error and
\* no niche_recommendations
C28_AnalyzeNicheResolves ==
    (pc = "done" /\ scorer = NoScorerCall /\ registry = NoCall /\ content = NoCall)
        => /\ "rejected" \notin DOMAIN result
           /\ "success" \in DOMAIN result
           /\ result.success \in BOOLEAN
           /\ ~result.success =>
                 /\ "error" \in DOMAIN result
                 /\ "niche_recommendations" \notin DOMAIN result

\* analyzeNiche() without options has resolved to a failure object
C28_Witness ==
    /\ pc = "done"
    /\ "options" \in DOMAIN request
    /\ "success" \in DOMAIN result
    /\ ~result.success

----------------------------------------------------------------------------
(* Properties of generateNicheRecommendations *)

\* a direct call of generateNicheRecommendations has returned
GenerateCalled == pc = "called" /\ "preferences" \in DOMAIN request

\* the factor 0.3 + Math.random() * 0.7 of the draw k, in thousandths
VolumeFactor(k) == 300 + (RandomAt(k) * 7) \div 10

\* the names and volumes (in thousandths) the statement gives the candidates derived
\* from the related keywords rest of a record, the next draw being draw k
RECURSIVE DerivedOf(_, _, _)
DerivedOf(data, rest, k) ==
    IF rest = <<>> THEN [list |-> <<>>, k |-> k]
    ELSE IF Head(rest) = data.keyword THEN DerivedOf(data, Tail(rest), k)
    ELSE IF Len(Head(rest)) < 5 THEN DerivedOf(data, Tail(rest), k)
    ELSE LET whole == data.search_volume.v \div 1000
             part == data.search_volume.v % 1000
             volume == ((whole * VolumeFactor(k) + (part * VolumeFactor(k)) \div 1000)
                            \div 1000) * 1000
         IN  IF volume >= 1000000
             THEN LET more == DerivedOf(data, Tail(rest), k + 3)
                  IN  [list |-> <<[name |-> Head(rest), volume |-> volume]>> \o more.list,
                       k |-> more.k]
             ELSE DerivedOf(data, Tail(rest), k + 1)

\* the same for a list of records: each valid record gives its keyword, then its
\* derived candidates
RECURSIVE CandidatesOf(_, _)
CandidatesOf(keywordDataList, k) ==
    IF keywordDataList = <<>> THEN <<>>
    ELSE LET data == Head(keywordDataList)
         IN  IF ~data.success THEN CandidatesOf(Tail(keywordDataList), k)
             ELSE LET derived == DerivedOf(data, data.related_keywords, k)
                  IN  <<[name |-> data.keyword, volume |-> data.search_volume.v]>>
                      \o derived.list \o CandidatesOf(Tail(keywordDataList), derived.k)

\* the candidate is the keyword of a valid record itself
IsOwn(niche) ==
    \E i \in 1..Len(keywordDataResults) :
        /\ keywordDataResults[i].success
        /\ keywordDataResults[i].keyword = niche.niche_name
        /\ keywordDataResults[i].search_volume = niche.monthly_search_volume
        /\ keywordDataResults[i].related_keywords = niche.related_keywords

\* C25: candidate generation yields, for each valid record, the keyword itself and
\* one candidate for each related keyword that differs from the keyword, has at
\* least 5 characters and whose volume floor(source volume * f), f the factor in
\* [0.3, 1.0) drawn for it, is at least 1000, and no other. Hence every derived
\* candidate has a volume of at least 1000 and at most the volume of its source, and
\* a name of at least 5 characters
C25_CandidatesOfRecords ==
    GenerateCalled =>
        /\ request.preferences.industry = <<>> =>
              [i \in 1..Len(niches) |->
                  [name |-> niches[i].niche_name,
                   volume |-> niches[i].monthly_search_volume.v]]
                  = CandidatesOf(keywordDataResults, 0)
        /\ \A i \in 1..Len(niches) :
              \/ IsOwn(niches[i])
              \/ /\ Len(niches[i].niche_name) >= 5
                 /\ niches[i].monthly_search_volume.t = "num"
                 /\ niches[i].monthly_search_volume.v >= 1000000
                 /\ \E d \in 1..Len(keywordDataResults) :
                       /\ keywordDataResults[d].success
                       /\ keywordDataResults[d].keyword = Head(niches[i].related_keywords)
                       /\ keywordDataResults[d].keyword # niches[i].niche_name
                       /\ niches[i].monthly_search_volume.v
                              <= keywordDataResults[d].search_volume.v

\* a record of volume 3334 whose related keywords are the keyword itself, 'grow', and
\* a third one gave its keyword and, by a factor of 0.3, one derived candidate of
\* volume 1000
C25_Witness ==
    /\ GenerateCalled
    /\ Len(keywordDataResults) = 1
    /\ keywordDataResults[1].success
    /\ keywordDataResults[1].keyword = kwHydroponics
    /\ keywordDataResults[1].related_keywords = <<kwHydroponics, strGrow, strBuy>>
    /\ Len(niches) = 2
    /\ niches[1].niche_name = kwHydroponics
    /\ niches[2].niche_name = strBuy
    /\ niches[2].monthly_search_volume = Num(1000000)

\* C27: every candidate has a competition in [0, 1], the derived ones (the source's
\* competition times a factor in [0.8, 1.2)) included, whenever the competition of
\* every source record is in [0, 1]
C27_CompetitionInUnitInterval ==
    GenerateCalled =>
        \A i \in 1..Len(niches) :
            /\ niches[i].competition.t = "num"
            /\ niches[i].competition.v >= 0
            /\ niches[i].competition.v <= 1000

----------------------------------------------------------------------------
(* Properties of registerDomain *)

\* the calls of registerDomain that are under way or have returned
Registering == registry.op = "registerDomain"
Returned == Registering /\ "result" \in DOMAIN registry

\* the positions of the options the registrar reported as available
ReportedAvailable ==
    {i \in 1..Len(registry.availabilityChecks) :
        /\ registry.availabilityChecks[i].settled
        /\ registry.availabilityChecks[i].answer = "available"}

C22_FailedChecksGiveRegistrationError ==
    (/\ Returned
     /\ registry.availabilityChecks # <<>>
     /\ \A i \in 1..Len(registry.availabilityChecks) :
           /\ registry.availabilityChecks[i].settled
           /\ registry.availabilityChecks[i].answer = "throw")
        => /\ ~registry.result.success
           /\ registry.result.error = "Domain registration error"
           /\ "details" \in DOMAIN registry.result

\* C29: a call of registerDomain that returns success: false has registered no
\* domain; in particular a failure of the DNS zone setup after a registration does
\* not make the result a failure
C29_FailureMeansNothingRegistered ==
    (Returned /\ ~registry.result.success) => registry.registered = {}

----------------------------------------------------------------------------
(* Properties of generateDomainOptions *)

\* the calls of generateDomainOptions that have returned or thrown
OptionsCalled == registry.op = "generateDomainOptions"

\* the keywords of the call that cleaning leaves non-empty
KeptKeywords ==
    SelectSeq([i \in 1..Len(registry.keywordsList) |-> CleanKeyword(registry.keywordsList[i])],
              LAMBDA keyword : keyword # <<>>)

\* C23: generateDomainOptions called with no keyword, or only keywords that cleaning
\* empties, returns the empty list and throws nothing
C23_NoKeywordsNoOptions ==
    (OptionsCalled /\ KeptKeywords = <<>>)
        => /\ ~registry.threw
           /\ registry.options = <<>>

\* the characters a label of a domain name may hold: lowercase letters, digits, hyphen
LabelCodes == (97..122) \cup (48..57) \cup {45}

\* name is a label of 1 to 63 such characters followed by one of the given TLDs
ValidDomain(name, tlds) ==
    \E t \in 1..Len(tlds) :
        /\ Len(name) > Len(tlds[t])
        /\ Len(name) - Len(tlds[t]) <= 63
        /\ SubSeq(name, Len(name) - Len(tlds[t]) + 1, Len(name)) = tlds[t]
        /\ \A c \in 1..(Len(name) - Len(tlds[t])) : name[c] \in LabelCodes

\* C30: every option generateDomainOptions returns is a valid domain name: a
\* non-empty label of at most 63 lowercase letters, digits and hyphens, followed by
\* one of the preferred TLDs
C30_OptionsAreValidDomains ==
    (OptionsCalled /\ ~registry.threw)
        => \A i \in 1..Len(registry.options) :
              ValidDomain(registry.options[i], WithDefaults(registry.preferences).preferredTLDs)

----------------------------------------------------------------------------
(* Properties of generateContent *)

\* C24: generateContent never throws: for every brief, with or without secondary
\* keywords and a tone, its promise resolves to an object whose status is 'success',
\* 'queued', or 'failed'
C24_GenerateContentResolves ==
    (content.op = "generateContent" /\ pc = "done")
        => /\ content.outcome = "resolved"
           /\ content.result.status \in {"success", "queued", "failed"}

====
